---- MODULE Spec2Model ----
(***************************************************************************)
(* Model of the two scripts of gravity-toolkit:                            *)
(*   scripts/make_grace_index.py      (index builder)                      *)
(*   scripts/plot_AIS_regional_maps.py (regional map renderer)             *)
(* Each script is a sequential process; its position is a program counter. *)
(* The file system, the command line and the log are the shared state.     *)
(***************************************************************************)
EXTENDS Integers, Sequences, FiniteSets, TLC

VARIABLES
    prog,        \* which script this invocation runs: "index" or "plot"
    cmd,         \* the command line (option -> values that follow it)
    args,        \* the namespace returned by parse_known_args
    pc,          \* position of the running script
    exit,        \* "running", "usage" (parser exit 2), "returned", "uncaught"
    exc,         \* the exception being propagated, "" when none
    log,         \* records emitted by logging.critical / logging.error
    calls,       \* number of calls of make_grace_index / plot_grid
    trace,       \* the file operations done so far, in order
    umask,       \* the process umask
    euid,        \* the effective user id of the process (0 is root)
    \* ---- make_grace_index
    fs,          \* product directories: existence, data files, index.txt
    fs0,         \* the product directories when the script started
    ipr, irl, ids, imi,  \* positions of the four nested for-loops
    grace_files, \* list of GRACE/GRACE-FO files for index
    fid,         \* the directories whose index.txt is open
    \* ---- plot_grid
    out,         \* FIGURE_FILE: its parent directory and the file itself
    out0,        \* the same when the script started
    infile,      \* the cells of the input grid file
    render,      \* the local variables of plot_grid and what it has drawn
    \* ---- repeated invocations of the index builder
    runs,        \* the number of the current invocation
    fs1          \* the product directories when the first invocation ended

vars == <<prog, cmd, args, pc, exit, exc, log, calls, trace, umask, euid,
          fs, fs0, ipr, irl, ids, imi, grace_files, fid, out, out0,
          infile, render, runs, fs1>>

\* the variables of the main program
mainvars == <<prog, cmd, args, exit, exc, log, calls, umask, euid, fs0, out0,
              infile, render, runs, fs1>>
\* the local variables of make_grace_index
loopvars == <<ipr, irl, ids, imi, grace_files>>

----------------------------------------------------------------------------
(* Bounds of the model *)

\* dates (month stamps) that occur in filenames
MaxDate == 2
\* number of data files in a product directory
MaxFiles == 3
\* number of values that follow --center or --release
MaxValues == 2
\* number of values that follow --version
MaxVersions == 3
\* number of invocations of the index builder on the same directories
MaxRuns == 2

----------------------------------------------------------------------------
(* Sequences *)

Range(s) == {s[i] : i \in 1..Len(s)}

\* all sequences over S of length lo..hi
SeqsOf(S, lo, hi) == UNION {[1..n -> S] : n \in lo..hi}

\* all orders in which the elements of a finite set can be listed
RECURSIVE Perms(_)
Perms(S) ==
    IF S = {} THEN {<<>>}
    ELSE UNION {{<<x>> \o p : p \in Perms(S \ {x})} : x \in S}

----------------------------------------------------------------------------
(* Filenames *)

\* mutant: the shortnames of the two missions are exchanged
shortname_swapped == [grace |-> "GRFO", grace_fo |-> "GRAC"]

\* mutant: both missions are given the shortname of GRACE
shortname_same == [grace |-> "GRAC", grace_fo |-> "GRAC"]

\* mission shortnames
shortname == [grace |-> "GRAC", grace_fo |-> "GRFO"]
\* the satellite missions in the order of the loop of make_grace_index
missions == <<"grace", "grace_fo">>

\* mutant: CSR is given the products of the other centers
DSET_all == [CSR |-> <<"GAA", "GAB", "GAC", "GAD", "GSM">>,
             GFZ |-> <<"GAA", "GAB", "GAC", "GAD", "GSM">>,
             JPL |-> <<"GAA", "GAB", "GAC", "GAD", "GSM">>]

\* datasets for each processing center
DSET == [CSR |-> <<"GAC", "GAD", "GSM">>,
         GFZ |-> <<"GAA", "GAB", "GAC", "GAD", "GSM">>,
         JPL |-> <<"GAA", "GAB", "GAC", "GAD", "GSM">>]

Centers == {"CSR", "GFZ", "JPL"}
Releases == {"RL06"}
Products == {"GAA", "GAB", "GAC", "GAD", "GSM"}
Versions == {"0", "1", "2", "3"}

\* A Level-2 filename <ds>-2_<date>_<mission>_<center>_BA01_0<rl>0<ver>
\* is the record of its fields; "index.txt" is the name of the index file.
File(ds, date, mi, pr, rl, ver) ==
    [ds |-> ds, date |-> date, mi |-> mi, pr |-> pr, rl |-> rl, ver |-> ver]
IndexName == File("index.txt", 0, "", "", "", "")

\* the strings of the model in the order Python compares them
\* (code points: digits < upper case < lower case)
Alphabet == <<"", "0", "1", "2", "3", "CSR", "GAA", "GAB", "GAC", "GAD",
              "GFZ", "GRAC", "GRFO", "GSM", "JPL", "RL05", "RL06", "index.txt">>
Ord(s) == CHOOSE i \in 1..Len(Alphabet) : Alphabet[i] = s

\* the fields of a filename in the order they are laid out in the string
Key(f) == <<Ord(f.ds), f.date, Ord(f.mi), Ord(f.pr), Ord(f.rl), Ord(f.ver)>>

\* str.__lt__ : lexicographic comparison
RECURSIVE LexLess(_, _)
LexLess(a, b) ==
    IF b = <<>> THEN FALSE
    ELSE IF a = <<>> THEN TRUE
    ELSE IF Head(a) # Head(b) THEN Head(a) < Head(b)
    ELSE LexLess(Tail(a), Tail(b))
NameLess(f, g) == LexLess(Key(f), Key(g))

\* mutant: a name is put in front of the list whatever its rank
Insert_front(f, seq) == <<f>> \o seq

\* insert a name into a sorted list, after the names that are not greater
RECURSIVE Insert(_, _)
Insert(f, seq) ==
    IF seq = <<>> THEN <<f>>
    ELSE IF NameLess(f, Head(seq)) THEN <<f>> \o seq
    ELSE <<Head(seq)>> \o Insert(f, Tail(seq))

\* mutant: the list is written in the order it was collected
unsorted(seq) == seq

\* sorted(grace_files)
RECURSIVE sorted(_)
sorted(seq) ==
    IF seq = <<>> THEN <<>>
    ELSE Insert(seq[Len(seq)], sorted(SubSeq(seq, 1, Len(seq) - 1)))

\* the regular expression compile_regex_pattern(pr, rl, ds, mission, version)
\* selects the files of one mission, center, release, product and version
compile_regex_pattern(pr, rl, ds, mission, version) ==
    [pr |-> pr, rl |-> rl, ds |-> ds, mi |-> mission, ver |-> version]
\* rx.match(fi)
match(rx, fi) ==
    /\ fi.ds = rx.ds
    /\ fi.date > 0
    /\ fi.mi = rx.mi
    /\ fi.pr = rx.pr
    /\ fi.rl = rx.rl
    /\ fi.ver = rx.ver

\* mutant: the files are not filtered by the regular expression
ListAll(listing, rx) == listing

\* [fi for fi in os.listdir(local_dir) if rx.match(fi)]
RECURSIVE ListMatch(_, _)
ListMatch(listing, rx) ==
    IF listing = <<>> THEN <<>>
    ELSE (IF match(rx, Head(listing)) THEN <<Head(listing)>> ELSE <<>>)
            \o ListMatch(Tail(listing), rx)

----------------------------------------------------------------------------
(* Permission modes *)

\* a & ~m on permission bits
RECURSIVE AndNot(_, _)
AndNot(a, m) ==
    IF a = 0 THEN 0
    ELSE 2 * AndNot(a \div 2, m \div 2)
            + (IF a % 2 = 1 /\ m % 2 = 0 THEN 1 ELSE 0)

\* mode of a file created by open(..., 'w') : 0o666 & ~umask
NewFileMode(mask) == AndNot(438, mask)

\* mutant: the mode string is read as a decimal number
RECURSIVE IntBase10(_)
IntBase10(str) ==
    IF str = <<>> THEN 0
    ELSE 10 * IntBase10(SubSeq(str, 1, Len(str) - 1)) + str[Len(str)]

\* int(x, base=8) of a string of digits
RECURSIVE IntBase8(_)
IntBase8(str) ==
    IF str = <<>> THEN 0
    ELSE 8 * IntBase8(SubSeq(str, 1, Len(str) - 1)) + str[Len(str)]

\* int(x, base=8) raises ValueError for an empty string or a digit 8 or 9
ValidBase8(str) == str # <<>> /\ \A i \in 1..Len(str) : str[i] \in 0..7

\* default of --mode : 0o775
DefaultMode == 509

----------------------------------------------------------------------------
(* Command line of make_grace_index *)

\* an option of the command line: whether it is given, and the values
\* that follow it up to the next option
Opt(given, vals) == [given |-> given, vals |-> vals]
Absent == Opt(FALSE, <<>>)

\* result of parsing one option
Parsed(val) == [ok |-> TRUE, val |-> val]
Rejected == [ok |-> FALSE, val |-> <<>>]

\* nargs='+' with choices: all the values that follow are taken and checked
parse_plus(opt, default, choices) ==
    IF ~opt.given THEN Parsed(default)
    ELSE IF Len(opt.vals) < 1 THEN Rejected
    ELSE IF \E i \in 1..Len(opt.vals) : opt.vals[i] \notin choices
         THEN Rejected
    ELSE Parsed(opt.vals)

\* mutant: every value that follows the option is taken and counted
parse_exactly(opt, n, default, choices) ==
    IF ~opt.given THEN Parsed(default)
    ELSE IF Len(opt.vals) # n THEN Rejected
    ELSE IF \E i \in 1..n : opt.vals[i] \notin choices THEN Rejected
    ELSE Parsed(opt.vals)

\* nargs=n with choices: the first n values are taken and checked; values
\* after them are left to parse_known_args as unknown arguments
parse_nargs(opt, n, default, choices) ==
    IF ~opt.given THEN Parsed(default)
    ELSE IF Len(opt.vals) < n THEN Rejected
    ELSE IF \E i \in 1..n : opt.vals[i] \notin choices THEN Rejected
    ELSE Parsed(SubSeq(opt.vals, 1, n))

\* type=lambda x: int(x,base=8), one value
parse_mode(opt) ==
    IF ~opt.given THEN Parsed(DefaultMode)
    ELSE IF Len(opt.vals) < 1 THEN Rejected
    ELSE IF ~ValidBase8(opt.vals[1]) THEN Rejected
    ELSE Parsed(IntBase8(opt.vals[1]))

\* arguments() of make_grace_index.py and parser.parse_known_args()
index_arguments(c) ==
    LET center  == parse_plus(c.center, <<"CSR", "GFZ", "JPL">>, Centers)
        release == parse_plus(c.release, <<"RL06">>, Releases)
        version == parse_nargs(c.version, 2, <<"0", "1">>, Versions)
        mode    == parse_mode(c.mode)
    IN  [ok |-> center.ok /\ release.ok /\ version.ok /\ mode.ok,
         center |-> center.val, release |-> release.val,
         version |-> version.val, mode |-> mode.val]

----------------------------------------------------------------------------
(* make_grace_index.py *)

\* the product directories DIRECTORY/pr/rl/ds that may exist
Dirs == Centers \X Releases \X Products

\* an index.txt: whether it exists, its lines and its permission mode
NoIndex == [present |-> FALSE, lines |-> <<>>, mode |-> 0]
\* a product directory
Dir(exists, files, index) ==
    [exists |-> exists, files |-> files, index |-> index,
     modes |-> [f \in files |-> 420]]

\* os.path.join(DIRECTORY, pr, rl, ds) at the current loop position
local_dir ==
    <<args.center[ipr], args.release[irl], DSET[args.center[ipr]][ids]>>

\* the names os.listdir(d) returns, in no particular order
Listing(d) ==
    fs[d].files \cup (IF fs[d].index.present THEN {IndexName} ELSE {})

\* the product directories selected by PROC and DREL
Selected(PROC, DREL) ==
    {d \in Dirs : /\ d[1] \in Range(PROC)
                  /\ d[2] \in Range(DREL)
                  /\ d[3] \in Range(DSET[d[1]])}

\* main(): lines 114-115 and the call of make_grace_index
index_main ==
    /\ prog = "index" /\ pc = "parse"
    /\ LET ns == index_arguments(cmd) IN
        IF ns.ok
        THEN /\ args' = [center |-> ns.center, release |-> ns.release,
                         version |-> ns.version, mode |-> ns.mode]
             /\ calls' = calls + 1
             /\ pc' = "listdir"
             /\ exit' = exit
        ELSE /\ exit' = "usage"
             /\ pc' = "exit"
             /\ UNCHANGED <<args, calls>>
    /\ UNCHANGED <<prog, cmd, exc, log, trace, umask, euid, fs, fs0, loopvars,
                   fid, out, out0, infile, render, runs, fs1>>

\* mutant: the index of a directory that cannot be listed is emptied
listdir_truncating ==
    /\ prog = "index" /\ pc = "listdir"
    /\ IF ~fs[local_dir].exists
       THEN /\ exc' = "FileNotFoundError"
            /\ pc' = "raise"
            /\ fs' = [fs EXCEPT ![local_dir].index.lines = <<>>]
            /\ UNCHANGED <<trace, loopvars>>
       ELSE \E listing \in Perms(Listing(local_dir)) :
            LET rx == compile_regex_pattern(local_dir[1], local_dir[2],
                        local_dir[3], shortname[missions[imi]],
                        args.version[imi])
                files == ListMatch(listing, rx)
            IN  /\ grace_files' = grace_files \o files
                /\ trace' = Append(trace, <<"listdir", local_dir>>)
                /\ IF imi < Len(missions)
                   THEN imi' = imi + 1 /\ pc' = pc
                   ELSE imi' = imi /\ pc' = "open"
                /\ UNCHANGED <<exc, ipr, irl, ids, fs>>
    /\ UNCHANGED <<prog, cmd, args, exit, log, calls, umask, euid, fs0, fid,
                   out, out0, infile, render, runs, fs1>>

\* lines 58-67: one pass of the loop over the missions
listdir ==
    /\ prog = "index" /\ pc = "listdir"
    /\ IF ~fs[local_dir].exists
       THEN /\ exc' = "FileNotFoundError"
            /\ pc' = "raise"
            /\ UNCHANGED <<trace, loopvars>>
       ELSE \E listing \in Perms(Listing(local_dir)) :
            LET rx == compile_regex_pattern(local_dir[1], local_dir[2],
                        local_dir[3], shortname[missions[imi]],
                        args.version[imi])
                files == ListMatch(listing, rx)
            IN  /\ grace_files' = grace_files \o files
                /\ trace' = Append(trace, <<"listdir", local_dir>>)
                /\ IF imi < Len(missions)
                   THEN imi' = imi + 1 /\ pc' = pc
                   ELSE imi' = imi /\ pc' = "open"
                /\ UNCHANGED <<exc, ipr, irl, ids>>
    /\ UNCHANGED <<prog, cmd, args, exit, log, calls, umask, euid, fs, fs0, fid,
                   out, out0, infile, render, runs, fs1>>

\* mutant: every existing file may be opened for writing
MayWrite_any(index, uid) == TRUE

\* open(..., 'w') of a file of the process's user: an existing file is
\* opened for writing when its mode has the owner's write bit (0o200) or
\* the process is root; a file that does not exist is created
MayWrite(index, uid) ==
    \/ ~index.present
    \/ (index.mode \div 128) % 2 = 1
    \/ uid = 0

\* line 70: open(os.path.join(local_dir,'index.txt'),'w')
open ==
    /\ prog = "index" /\ pc = "open"
    /\ IF ~MayWrite(fs[local_dir].index, euid)
       THEN /\ exc' = "PermissionError"
            /\ pc' = "raise"
            /\ UNCHANGED <<fs, fid, trace>>
       ELSE /\ fs' = [fs EXCEPT ![local_dir].index =
                        [present |-> TRUE, lines |-> <<>>,
                         mode |-> IF @.present THEN @.mode
                                  ELSE NewFileMode(umask)]]
            /\ fid' = fid \cup {local_dir}
            /\ trace' = Append(trace, <<"open", local_dir>>)
            /\ pc' = "write"
            /\ exc' = exc
    /\ UNCHANGED <<prog, cmd, args, exit, log, calls, umask, euid, fs0, out0,
                   infile, render, runs, fs1, loopvars, out>>

\* lines 71-72: print each of sorted(grace_files) to the index
write ==
    /\ prog = "index" /\ pc = "write"
    /\ fs' = [fs EXCEPT ![local_dir].index.lines = sorted(grace_files)]
    /\ trace' = Append(trace, <<"write", local_dir>>)
    /\ pc' = "close"
    /\ UNCHANGED <<mainvars, loopvars, fid, out>>

\* mutant: the index file is not closed
close_leak ==
    /\ prog = "index" /\ pc = "close"
    /\ trace' = Append(trace, <<"close", local_dir>>)
    /\ pc' = "chmod"
    /\ UNCHANGED <<mainvars, loopvars, fs, fid, out>>

\* end of the with statement of line 70
close ==
    /\ prog = "index" /\ pc = "close"
    /\ fid' = fid \ {local_dir}
    /\ trace' = Append(trace, <<"close", local_dir>>)
    /\ pc' = "chmod"
    /\ UNCHANGED <<mainvars, loopvars, fs, out>>

\* mutant: the mode is given to every file under the release directory
chmod_recursive ==
    /\ prog = "index" /\ pc = "chmod"
    /\ fs' = [d \in Dirs |->
                IF d[1] = local_dir[1] /\ d[2] = local_dir[2]
                THEN [fs[d] EXCEPT
                        !.index.mode = IF fs[d].index.present
                                       THEN args.mode ELSE @,
                        !.modes = [f \in fs[d].files |-> args.mode]]
                ELSE fs[d]]
    /\ trace' = Append(trace, <<"chmod", local_dir>>)
    /\ grace_files' = <<>>
    /\ imi' = 1
    /\ IF ids < Len(DSET[args.center[ipr]])
       THEN ids' = ids + 1 /\ UNCHANGED <<irl, ipr>> /\ pc' = "listdir"
       ELSE IF irl < Len(args.release)
       THEN ids' = 1 /\ irl' = irl + 1 /\ ipr' = ipr /\ pc' = "listdir"
       ELSE IF ipr < Len(args.center)
       THEN ids' = 1 /\ irl' = 1 /\ ipr' = ipr + 1 /\ pc' = "listdir"
       ELSE UNCHANGED <<ids, irl, ipr>> /\ pc' = "return"
    /\ UNCHANGED <<mainvars, fid, out>>

\* line 74: os.chmod(index.txt, MODE), then the next pass of the loops
\* of lines 48-52
chmod ==
    /\ prog = "index" /\ pc = "chmod"
    /\ fs' = [fs EXCEPT ![local_dir].index.mode = args.mode]
    /\ trace' = Append(trace, <<"chmod", local_dir>>)
    /\ grace_files' = <<>>
    /\ imi' = 1
    /\ IF ids < Len(DSET[args.center[ipr]])
       THEN ids' = ids + 1 /\ UNCHANGED <<irl, ipr>> /\ pc' = "listdir"
       ELSE IF irl < Len(args.release)
       THEN ids' = 1 /\ irl' = irl + 1 /\ ipr' = ipr /\ pc' = "listdir"
       ELSE IF ipr < Len(args.center)
       THEN ids' = 1 /\ irl' = 1 /\ ipr' = ipr + 1 /\ pc' = "listdir"
       ELSE UNCHANGED <<ids, irl, ipr>> /\ pc' = "return"
    /\ UNCHANGED <<mainvars, fid, out>>

\* make_grace_index returns and main() returns after line 120
index_return ==
    /\ prog = "index" /\ pc = "return"
    /\ exit' = "returned"
    /\ pc' = "exit"
    /\ fs1' = IF runs = 1 THEN fs ELSE fs1
    /\ UNCHANGED <<prog, cmd, args, exc, log, calls, trace, umask, euid, fs, fs0,
                   loopvars, fid, out, out0, infile, render, runs>>

\* the script is invoked again with the same command line on the
\* directories the invocation before left
index_again ==
    /\ prog = "index" /\ pc = "exit" /\ exit = "returned"
    /\ runs < MaxRuns
    /\ runs' = runs + 1
    /\ pc' = "parse"
    /\ exit' = "running"
    /\ args' = <<>>
    /\ calls' = 0
    /\ ipr' = 1 /\ irl' = 1 /\ ids' = 1 /\ imi' = 1
    /\ grace_files' = <<>>
    /\ UNCHANGED <<prog, cmd, exc, log, trace, umask, euid, fs, fs0, fid, out,
                   out0, infile, render, fs1>>

\* mutant: main() catches the exception, logs it and returns
index_except ==
    /\ prog = "index" /\ pc = "raise"
    /\ log' = log \o <<<<"critical", "process id failed">>, <<"error", exc>>>>
    /\ exit' = "returned"
    /\ pc' = "exit"
    /\ UNCHANGED <<prog, cmd, args, exc, calls, trace, umask, euid, fs, fs0,
                   loopvars, fid, out, out0, infile, render, runs, fs1>>

\* lines 112-120: main() has no try statement; an exception raised in
\* make_grace_index leaves main() and ends the interpreter
index_raise ==
    /\ prog = "index" /\ pc = "raise"
    /\ exit' = "uncaught"
    /\ pc' = "exit"
    /\ UNCHANGED <<prog, cmd, args, exc, log, calls, trace, umask, euid, fs, fs0,
                   loopvars, fid, out, out0, infile, render, runs, fs1>>

----------------------------------------------------------------------------
(* Double precision: the floats of Python and the float64 of numpy *)

\* a natural number of any size: its digits to the base 2^15, the lowest
\* first, without high zeros
Base == 32768

\* the digits of the natural number n
RECURSIVE Big(_)
Big(n) == IF n = 0 THEN <<>> ELSE <<n % Base>> \o Big(n \div Base)

\* the natural number of the digits a, which fits the integers of the model
RECURSIVE Small(_)
Small(a) == IF a = <<>> THEN 0 ELSE Head(a) + Base * Small(Tail(a))

\* a without its high zeros
RECURSIVE Strip(_)
Strip(a) ==
    IF a = <<>> THEN <<>>
    ELSE IF a[Len(a)] = 0 THEN Strip(SubSeq(a, 1, Len(a) - 1))
    ELSE a

\* a + b + carry
RECURSIVE BigAdd(_, _, _)
BigAdd(a, b, carry) ==
    IF a = <<>> /\ b = <<>>
    THEN IF carry = 0 THEN <<>> ELSE <<carry>>
    ELSE LET x == (IF a = <<>> THEN 0 ELSE Head(a))
                    + (IF b = <<>> THEN 0 ELSE Head(b)) + carry
         IN  <<x % Base>> \o BigAdd(IF a = <<>> THEN <<>> ELSE Tail(a),
                                    IF b = <<>> THEN <<>> ELSE Tail(b),
                                    x \div Base)

\* a - b - borrow for a >= b + borrow, with high zeros
RECURSIVE BigMinus(_, _, _)
BigMinus(a, b, borrow) ==
    IF a = <<>> THEN <<>>
    ELSE LET x == Head(a) - (IF b = <<>> THEN 0 ELSE Head(b)) - borrow
         IN  <<(x + Base) % Base>>
                \o BigMinus(Tail(a), IF b = <<>> THEN <<>> ELSE Tail(b),
                            IF x < 0 THEN 1 ELSE 0)

\* a - b for a >= b
BigSub(a, b) == Strip(BigMinus(a, b, 0))

\* a < b
RECURSIVE BigLess(_, _)
BigLess(a, b) ==
    IF Len(a) # Len(b) THEN Len(a) < Len(b)
    ELSE IF a = <<>> THEN FALSE
    ELSE IF a[Len(a)] # b[Len(b)] THEN a[Len(a)] < b[Len(b)]
    ELSE BigLess(SubSeq(a, 1, Len(a) - 1), SubSeq(b, 1, Len(b) - 1))

\* a * n + carry for 0 < n < Base
RECURSIVE BigTimes(_, _, _)
BigTimes(a, n, carry) ==
    IF a = <<>> THEN IF carry = 0 THEN <<>> ELSE <<carry>>
    ELSE LET x == Head(a) * n + carry
         IN  <<x % Base>> \o BigTimes(Tail(a), n, x \div Base)

\* 10^k
RECURSIVE Pow10(_)
Pow10(k) == IF k = 0 THEN <<1>> ELSE BigTimes(Pow10(k - 1), 10, 0)

\* k zeros
RECURSIVE Zeros(_)
Zeros(k) == IF k = 0 THEN <<>> ELSE <<0>> \o Zeros(k - 1)

\* a * 2^k
BigShl(a, k) ==
    IF a = <<>> THEN <<>>
    ELSE Zeros(k \div 15) \o BigTimes(a, 2^(k % 15), 0)

\* a \div 2^r for r < 15, with high zeros
RECURSIVE BigHalve(_, _)
BigHalve(a, r) ==
    IF a = <<>> THEN <<>>
    ELSE <<Head(a) \div 2^r + (IF Len(a) > 1
                               THEN (a[2] % 2^r) * 2^(15 - r)
                               ELSE 0)>>
            \o BigHalve(Tail(a), r)

\* a \div 2^k
BigShr(a, k) ==
    IF k \div 15 >= Len(a) THEN <<>>
    ELSE Strip(BigHalve(SubSeq(a, k \div 15 + 1, Len(a)), k % 15))

\* the number of binary digits of the integer n and of a
RECURSIVE BitLength(_)
BitLength(n) == IF n = 0 THEN 0 ELSE 1 + BitLength(n \div 2)
Bits(a) == IF a = <<>> THEN 0 ELSE 15 * (Len(a) - 1) + BitLength(a[Len(a)])

\* the number of low binary digits of a # 0 that are zero
RECURSIVE LowZeros(_)
LowZeros(a) ==
    IF Head(a) = 0 THEN 15 + LowZeros(Tail(a))
    ELSE CHOOSE z \in 0..14 : Head(a) % 2^(z + 1) = 2^z

\* d * q <= r
Fits(r, q, d) == d = 0 \/ ~BigLess(r, BigTimes(q, d, 0))

\* the largest d with d * q <= r, for r below Base * q and a q whose
\* highest digit is Base / 2 or more: the quotient of the two highest
\* digits of r by the highest digit of q, or one or two below it
Estimate(r, q) ==
    LET top == (IF Len(r) > Len(q) THEN r[Len(q) + 1] * Base ELSE 0)
                + (IF Len(r) >= Len(q) THEN r[Len(q)] ELSE 0)
    IN  IF top \div q[Len(q)] >= Base THEN Base - 1
        ELSE top \div q[Len(q)]
Corrected(r, q, d) ==
    IF Fits(r, q, d) THEN d
    ELSE IF Fits(r, q, d - 1) THEN d - 1
    ELSE d - 2
QuotDigit(r, q) == Corrected(r, q, Estimate(r, q))

\* the quotient quot with the digit d below it, and the remainder of r
Reduced(quot, r, q, d) ==
    [quot |-> IF quot = <<>> /\ d = 0 THEN <<>> ELSE <<d>> \o quot,
     rem |-> IF d = 0 THEN r ELSE BigSub(r, BigTimes(q, d, 0))]

\* the quotient and the remainder by q of the digits above with one
\* digit more below them
DivideStep(up, digit, q) ==
    IF up.rem = <<>> /\ digit = 0
    THEN [quot |-> IF up.quot = <<>> THEN <<>> ELSE <<0>> \o up.quot,
          rem |-> <<>>]
    ELSE Reduced(up.quot, <<digit>> \o up.rem, q,
                 QuotDigit(<<digit>> \o up.rem, q))

\* the quotient and the remainder of the digits n and above of p by a q
\* whose highest digit is Base / 2 or more, digit by digit
RECURSIVE BigDivide(_, _, _)
BigDivide(p, q, n) ==
    IF n > Len(p) THEN [quot |-> <<>>, rem |-> <<>>]
    ELSE DivideStep(BigDivide(p, q, n + 1), p[n], q)

\* the number of binary digits that q lacks for a highest digit of
\* Base / 2 or more
Slack(q) == (15 - (Bits(q) % 15)) % 15

\* a double: sign * man * 2^exp with man odd and below 2^53; zero has no
\* digits; nan is not a number. The exponents of the model are far from
\* the limits of the format, and a zero has no sign
Double(sign, man, exp) == [sign |-> sign, man |-> man, exp |-> exp]
nan == Double(0, <<>>, 0)
Zero == Double(1, <<>>, 0)

\* the double of sign * man * 2^exp, for man below 2^53
Canonical(sign, man, exp) ==
    IF man = <<>> THEN Zero
    ELSE Double(sign, BigShr(man, LowZeros(man)), exp + LowZeros(man))

\* the double of sign * kept * 2^exp, or of the next one above when the
\* binary digits dropped below kept are more than half a unit, or half a
\* unit with kept odd (ties to even)
RoundKept(sign, kept, low, half, rest, exp) ==
    Canonical(sign,
              IF low > half \/ (low = half /\ (rest \/ kept[1] % 2 = 1))
              THEN BigAdd(kept, <<>>, 1)
              ELSE kept,
              exp)

\* the double nearest to sign * quot * 2^exp, for a quot of drop binary
\* digits more than 53 with something left below it or not
RoundDrop(sign, quot, rest, drop, exp) ==
    RoundKept(sign, BigShr(quot, drop), quot[1] % 2^drop, 2^(drop - 1),
              rest, exp + drop)

\* the double nearest to sign * (p * 2^k / q) * 2^(exp - k), for a
\* quotient of 55 or 56 binary digits
RoundQuotient(sign, d, exp) ==
    RoundDrop(sign, d.quot, d.rem # <<>>, Bits(d.quot) - 53, exp)
RoundShifted(sign, p, q, exp, k) ==
    RoundQuotient(sign,
                  BigDivide(BigShl(p, (IF k > 0 THEN k ELSE 0) + Slack(q)),
                            BigShl(q, (IF k < 0 THEN -k ELSE 0) + Slack(q)),
                            1),
                  exp - k)

\* the double nearest to sign * (p / q) * 2^exp, ties to even: 55 or 56
\* binary digits of the quotient are rounded to 53; a quotient that is
\* exact in 53 digits needs no rounding
Round(sign, p, q, exp) ==
    IF p = <<>> THEN Zero
    ELSE IF q = <<1>> /\ Bits(p) <= 53 THEN Canonical(sign, p, exp)
    ELSE IF Len(p) = 1 /\ Len(q) = 1 /\ p[1] % q[1] = 0
    THEN Canonical(sign, <<p[1] \div q[1]>>, exp)
    ELSE RoundShifted(sign, p, q, exp, 55 - (Bits(p) - Bits(q)))

\* a token that float() reads: the decimal numeral n / 10^k, or nan
Dec(n, k) == [nan |-> FALSE, n |-> n, k |-> k]
NanToken == [nan |-> TRUE, n |-> 0, k |-> 0]

\* float(token)
float(token) ==
    IF token.nan THEN nan
    ELSE Round(IF token.n < 0 THEN -1 ELSE 1,
               Big(IF token.n < 0 THEN -token.n ELSE token.n),
               Pow10(token.k), 0)

\* the double of the whole number n
Whole(n) == float(Dec(n, 0))

\* s * x + t * y times 2^exp
Added(s, x, t, y, exp) ==
    Round(IF s = t \/ ~BigLess(x, y) THEN s ELSE t,
          IF s = t THEN BigAdd(x, y, 0)
          ELSE IF BigLess(x, y) THEN BigSub(y, x)
          ELSE BigSub(x, y),
          <<1>>, exp)

\* a + b
fadd(a, b) ==
    IF a = nan \/ b = nan THEN nan
    ELSE IF a.exp < b.exp
    THEN Added(a.sign, a.man, b.sign, BigShl(b.man, b.exp - a.exp), a.exp)
    ELSE Added(a.sign, BigShl(a.man, a.exp - b.exp), b.sign, b.man, b.exp)

\* -a and a - b
fneg(a) == IF a.man = <<>> THEN a ELSE Double(-a.sign, a.man, a.exp)
fsub(a, b) == fadd(a, fneg(b))

\* a / b for b # 0
fdiv(a, b) ==
    IF a = nan \/ b = nan THEN nan
    ELSE Round(a.sign * b.sign, a.man, b.man, a.exp - b.exp)

\* i * a for a whole number i > 0
ftimes(i, a) ==
    IF a = nan THEN nan
    ELSE Round(a.sign, BigTimes(a.man, i, 0), <<1>>, a.exp)

\* a < b
fless(a, b) == a # nan /\ b # nan /\ fsub(a, b).sign = -1

\* |a| truncated to a natural number
trunc(a) ==
    IF a.exp >= 0 THEN BigShl(a.man, a.exp) ELSE BigShr(a.man, -a.exp)

\* math.ceil(a) of a double that is a number
ceil(a) ==
    IF a.sign = 1 /\ a.exp < 0 THEN Small(trunc(a)) + 1
    ELSE a.sign * Small(trunc(a))

----------------------------------------------------------------------------
(* plot_AIS_regional_maps.py *)

\* regional plot parameters (lengths in thousandths where not whole, the
\* colorbar axes in ten-thousandths)
region_figsize ==
    [ASE |-> <<10000, 9500>>, IIpp |-> <<10000, 10000>>,
     CpD |-> <<9500, 10000>>, QML |-> <<9500, 4625>>]
region_fontsize == [ASE |-> 24, IIpp |-> 24, CpD |-> 24, QML |-> 20]
region_labelsize == [ASE |-> 24, IIpp |-> 24, CpD |-> 24, QML |-> 24]
region_xlimit ==
    [ASE |-> <<-1900000, -900000>>, IIpp |-> <<-2710000, -1830000>>,
     CpD |-> <<1200000, 2650000>>, QML |-> <<-940000, 2400000>>]
region_ylimit ==
    [ASE |-> <<-900000, 200000>>, IIpp |-> <<760000, 1780000>>,
     CpD |-> <<-1800000, 0>>, QML |-> <<530000, 2300000>>]
region_cb_axis ==
    [ASE |-> <<8650, 150, 350, 9400>>, IIpp |-> <<8700, 150, 325, 9400>>,
     CpD |-> <<8550, 150, 400, 9400>>, QML |-> <<8700, 300, 300, 9000>>]
region_cb_length == [ASE |-> 26, IIpp |-> 23, CpD |-> 27, QML |-> 21]

\* mutant: the plot scale of Queen Maud Land is missing from the table
region_plotscale_less ==
    [ASE |-> <<-1870000, -845000, 200000, 25010, FALSE>>,
     IIpp |-> <<-2685000, 809000, 200000, 25010, FALSE>>,
     CpD |-> <<1230000, -1740000, 200000, 28420, FALSE>>]

region_plotscale ==
    [ASE |-> <<-1870000, -845000, 200000, 25010, FALSE>>,
     IIpp |-> <<-2685000, 809000, 200000, 25010, FALSE>>,
     CpD |-> <<1230000, -1740000, 200000, 28420, FALSE>>,
     QML |-> <<1705000, 2125000, 600000, 50000, FALSE>>]
region_sub_adjust ==
    [ASE |-> <<10, 855, 10, 960>>, IIpp |-> <<10, 860, 10, 960>>,
     CpD |-> <<10, 840, 10, 960>>, QML |-> <<10, 850, 10, 950>>]

\* table[key] raises KeyError when the key is not in the table
HasKey(table, key) == key \in DOMAIN table

\* the classes derived from Exception that the steps of the script raise;
\* ShapefileException is the class of shapefile.Reader (lines 227, 250,
\* 272 and 285), declared as class ShapefileException(Exception)
ExceptionClasses ==
    {"TypeError", "KeyError", "AttributeError", "OSError", "IndexError",
     "ZeroDivisionError", "UnboundLocalError", "RuntimeError",
     "ValueError", "OverflowError", "ShapefileException"}

\* line 798: the level of the root logger for --verbose 0, 1 and 2
\* (logging.CRITICAL, logging.INFO, logging.DEBUG)
loglevels == <<50, 20, 10>>

\* a logging call emits its record when its level is not below the level
\* of the root logger
Emit(level, threshold, record) ==
    IF level >= threshold THEN <<record>> ELSE <<>>

\* line 836: except Exception
except_Exception(e) == e \in ExceptionClasses

\* --region : one value, required, choices=sorted(region_figsize.keys())
parse_region(opt) ==
    IF ~opt.given THEN Rejected
    ELSE IF Len(opt.vals) < 1 THEN Rejected
    ELSE IF ~HasKey(region_figsize, opt.vals[1]) THEN Rejected
    ELSE Parsed(opt.vals[1])

\* None: the value of an option of plot_AIS_regional_maps.py that was
\* not given and has no default, and of a parameter of plot_grid that the
\* call does not pass
None == <<>>

\* type=float: the tokens of the model that float() reads, among them
\* nan and 1e-20
Floats == {Dec(n, k) : n \in -40..40, k \in {0, 1, 20}} \cup {NanToken}

\* the floats of a list of tokens
RECURSIVE floats(_)
floats(tokens) ==
    IF tokens = <<>> THEN <<>>
    ELSE <<float(Head(tokens))>> \o floats(Tail(tokens))

\* the tokens and the doubles of whole numbers
RECURSIVE Tokens(_)
Tokens(ns) ==
    IF ns = <<>> THEN <<>> ELSE <<Dec(Head(ns), 0)>> \o Tokens(Tail(ns))
Wholes(ns) == floats(Tokens(ns))

\* lines 688-690: default=[0.5,0.5] of --spacing
Half == Double(1, <<1>>, -1)

\* one value with choices
parse_choice(opt, default, choices) ==
    IF ~opt.given THEN Parsed(default)
    ELSE IF Len(opt.vals) < 1 THEN Rejected
    ELSE IF opt.vals[1] \notin choices THEN Rejected
    ELSE Parsed(opt.vals[1])

\* lines 674-676: --format, choices=['ascii','netCDF4','HDF5']
format_choices == {"ascii", "netCDF4", "HDF5"}
\* lines 691-693: --interval, type=int, choices=[1,2]
interval_choices == {1, 2}

\* mutant: the parser also accepts the interpolation method linear
interpolation_choices_more == {"nearest", "bilinear", "cubic", "linear"}

\* lines 695-697: --interpolation, choices=['nearest','bilinear','cubic']
interpolation_choices == {"nearest", "bilinear", "cubic"}

\* line 683: the packaged land-sea mask
lsmask == "landsea_hd.nc"
\* --mask takes any path: the paths of the model
Paths == {lsmask, "mask.nc"}
\* --basin-type takes any string: the strings of the model, of which
\* Zwally names no overlay of plot_grid
BasinTypes == {"", "Rignot", "IMBIE-2", "IMBIE-2_subbasin", "Amundsen",
               "Zwally"}

\* arguments() of plot_AIS_regional_maps.py and parser.parse_known_args()
\* plot_range, boundary, contour_range, plot_label and figure_file are
\* None when absent
plot_arguments(c) ==
    LET region == parse_region(c.region)
        mode   == parse_mode(c.mode)
        format == parse_choice(c.format, "netCDF4", format_choices)
        mask   == parse_choice(c.mask, lsmask, Paths)
        spacing == parse_plus(c.spacing, None, Floats)
        interval == parse_choice(c.interval, 2, interval_choices)
        interpolation == parse_choice(c.interpolation, "bilinear",
                                      interpolation_choices)
        plot_range == parse_nargs(c.plot_range, 3, None, Floats)
        boundary == parse_plus(c.boundary, None, Floats)
        contour_range == parse_nargs(c.contour_range, 3, None, Floats)
        basin_type == parse_choice(c.basin_type, "", BasinTypes)
    IN  [ok |-> /\ region.ok /\ mode.ok /\ format.ok /\ mask.ok
                /\ spacing.ok /\ interval.ok /\ interpolation.ok
                /\ plot_range.ok /\ boundary.ok /\ contour_range.ok
                /\ basin_type.ok,
         region |-> region.val, mode |-> mode.val,
         format |-> format.val, mask |-> mask.val,
         spacing |-> IF c.spacing.given THEN floats(spacing.val)
                     ELSE <<Half, Half>>,
         interval |-> interval.val,
         interpolation |-> interpolation.val,
         plot_range |-> floats(plot_range.val),
         boundary |-> floats(boundary.val),
         plot_contours |-> c.plot_contours,
         contour_range |-> floats(contour_range.val),
         mean_contour |-> c.mean_contour,
         basin_type |-> basin_type.val, basemap |-> c.basemap,
         plot_label |-> c.plot_label, draw_scale |-> c.draw_scale,
         figure_file |-> c.figure_file, verbose |-> c.verbose]

\* the MASK parameter of plot_grid in the call of lines 805-835: the call
\* passes no MASK keyword, so the parameter keeps the default of line 357
MASK(a) == None

\* the figure file: whether its parent directory and the file exist,
\* the file's mode and how many times it was saved
Out(dir, present, mode, saves) ==
    [dir |-> dir, present |-> present, mode |-> mode, saves |-> saves]

\* what a step of plot_grid leaves alone
plotframe == <<prog, cmd, args, exit, log, calls, umask, euid, fs, fs0,
               loopvars, fid, out0, infile, runs, fs1>>

\* raise e inside plot_grid
Raise(e) == exc' = e /\ pc' = "raise"
\* go on with the next step of plot_grid
Goto(next) == exc' = exc /\ pc' = next

\* main(): lines 794-805, up to the call of plot_grid; loglevels[verbose]
\* at line 799 is outside the try statement
plot_main ==
    /\ prog = "plot" /\ pc = "parse"
    /\ LET ns == plot_arguments(cmd) IN
        IF ~ns.ok
        THEN /\ exit' = "usage"
             /\ pc' = "exit"
             /\ UNCHANGED <<args, calls, exc>>
        ELSE /\ args' = [f \in DOMAIN ns \ {"ok"} |-> ns[f]]
             /\ IF ns.verbose + 1 > Len(loglevels)
                THEN /\ exc' = "IndexError"
                     /\ exit' = "uncaught"
                     /\ pc' = "exit"
                     /\ calls' = calls
                ELSE /\ calls' = calls + 1
                     /\ pc' = "levels"
                     /\ UNCHANGED <<exit, exc>>
    /\ UNCHANGED <<prog, cmd, log, trace, umask, euid, fs, fs0, loopvars,
                   fid, out, out0, infile, render, runs, fs1>>

\* what np.arange raises for the length (stop - start) / step: ValueError
\* when it is not a number, and ValueError when 64 bits do not hold it
\* (np.arange turns the OverflowError of the length into a ValueError)
length_raises(length) ==
    IF length = nan \/ Bits(trunc(length)) > 63 THEN "ValueError" ELSE ""

\* what np.arange(start, stop, step) raises: ZeroDivisionError for a
\* step of zero, or what it raises for the length
arange_raises(start, stop, step) ==
    IF step = Zero THEN "ZeroDivisionError"
    ELSE length_raises(fdiv(fsub(stop, start), step))

\* the values start + i * delta that np.arange fills in from the third on
RECURSIVE fill(_, _, _, _)
fill(start, delta, i, length) ==
    IF i >= length THEN <<>>
    ELSE <<fadd(start, ftimes(i, delta))>>
            \o fill(start, delta, i + 1, length)

\* the array of a length: start, next, and then start + i * delta for
\* the delta between the first two
filled(start, next, length) ==
    IF length <= 0 THEN <<>>
    ELSE IF length = 1 THEN <<start>>
    ELSE <<start, next>> \o fill(start, fsub(next, start), 2, length)

\* the number of values from start up to stop, stop included
closed(length) == ceil(length) + (IF length.exp >= 0 THEN 1 ELSE 0)

\* mutant: the values from start up to stop, stop included
arange_closed(start, stop, step) ==
    filled(start, fadd(start, step),
           closed(fdiv(fsub(stop, start), step)))

\* np.arange(start, stop, step) of doubles: ceil((stop - start) / step)
\* values, none when that is not positive: start, start + step, and then
\* start + i * delta for the delta between the first two
arange(start, stop, step) ==
    filled(start, fadd(start, step), ceil(fdiv(fsub(stop, start), step)))

\* what np.int64(a) raises: ValueError for nan, OverflowError for a
\* number that 64 bits do not hold
int64_raises(a) ==
    IF a = nan THEN "ValueError"
    ELSE IF Bits(trunc(a)) > 63 THEN "OverflowError"
    ELSE ""

\* np.int64(a): a truncated toward zero; the dimensions of the model fit
\* the integers of the model
int64(a) == a.sign * Small(trunc(a))

\* np.sign(a) == -1
negative(a) == a # nan /\ a.man # <<>> /\ a.sign = -1

\* clevs[np.nonzero(clevs)]
RECURSIVE nonzero(_)
nonzero(clevs) ==
    IF clevs = <<>> THEN <<>>
    ELSE (IF Head(clevs) # Zero THEN <<Head(clevs)>> ELSE <<>>)
            \o nonzero(Tail(clevs))

\* a cell of the input grid: its latitude, its value, whether the value
\* is valid (not the fill value) and its class in the land-sea mask
\* (0=Ocean, 1=Land, 2=Lake, 3=Small Island, 4=Ice Shelf)
Cell(lat, z, valid, cls) ==
    [lat |-> lat, z |-> z, valid |-> valid, cls |-> cls]

\* np.cos(lat*np.pi/180.0), doubled, on the latitude of the model: the
\* equator, where the cosine of the double is a whole number
cos2(lat) == CASE lat = 0 -> 2

\* lines 456-460: the cells of land, lake and small island classes
landsea_mask(grid) ==
    {i \in 1..Len(grid) : grid[i].cls >= 1 /\ grid[i].cls <= 3}

\* lines 448-462: the cells the dataset has masked after reading: the
\* invalid ones and, when a mask file is given, those it marks
masked_cells(grid, mask) ==
    {i \in 1..Len(grid) : ~grid[i].valid}
        \cup (IF mask # None THEN landsea_mask(grid) ELSE {})

\* the sum of f over the cells of set
RECURSIVE Sum(_, _)
Sum(f, set) ==
    IF set = {} THEN 0
    ELSE LET i == CHOOSE j \in set : TRUE
         IN  f[i] + Sum(f, set \ {i})

\* mutant: the mean is taken over every cell, masked or not
mean_all(grid, masked) ==
    LET cells == 1..Len(grid)
    IN  <<Sum([i \in cells |-> cos2(grid[i].lat) * grid[i].z], cells),
          Sum([i \in cells |-> cos2(grid[i].lat)], cells)>>

\* lines 546-551: np.sum(area*data)/np.sum(area) over the unmasked cells,
\* as the fraction <<numerator, denominator>>; the factors of area other
\* than the cosine of the latitude are the same for every cell
mean(grid, masked) ==
    LET cells == (1..Len(grid)) \ masked
    IN  <<Sum([i \in cells |-> cos2(grid[i].lat) * grid[i].z], cells),
          Sum([i \in cells |-> cos2(grid[i].lat)], cells)>>

\* an entity of a shapefile: the name in its record and the number of its
\* parts; an entity of no part has no points
Shape(name, parts) == [name |-> name, parts |-> parts]

\* line 288: the entities of the shapefile from i on that have points
\* (np.ndim(e.points) > 1), by position
RECURSIVE multi_point(_, _)
multi_point(shapes, i) ==
    IF i > Len(shapes) THEN <<>>
    ELSE (IF shapes[i].parts > 0 THEN <<i>> ELSE <<>>)
            \o multi_point(shapes, i + 1)

\* lines 282-293: plot_grounded_ice draws the entities i[START:] of the
\* coastline shapefile
plot_grounded_ice(shapes, START) ==
    SubSeq(multi_point(shapes, 1), START + 1, Len(multi_point(shapes, 1)))

\* something drawn on the axes: the call, its colour or kind, its values
Layer(op, arg, vals) == [op |-> op, arg |-> arg, vals |-> vals]

\* the local variables of plot_grid and what it has drawn; assigned holds
\* the names of the locals that an if/elif chain has assigned, coast the
\* entities of the coastline shapefile once it is read
NoRender ==
    [assigned |-> {}, levels |-> <<>>, norm |-> "", dlon |-> Zero,
     dlat |-> Zero,
     nlon |-> 0, nlat |-> 0, order |-> 0, reader |-> "", masked |-> {},
     flipped |-> FALSE, fig |-> FALSE, mask_oceans |-> FALSE,
     layers |-> <<>>, coast |-> <<>>, ticks |-> <<>>]

\* lines 402-411: the levels and the normalization. PLOT_RANGE[0] raises
\* TypeError when PLOT_RANGE is None; np.arange raises for a step of
\* zero, for nan and for a length out of range; colors.BoundaryNorm raises
\* ValueError for fewer than two boundaries and for more bins than the
\* 256 colours, after the levels were assigned
arange_levels(raised, levels) ==
    IF raised # ""
    THEN Raise(raised) /\ render' = render
    ELSE /\ render' = [render EXCEPT !.levels = levels,
                                     !.norm = "Normalize"]
         /\ Goto("dims")
range_levels(start, stop, step) ==
    arange_levels(arange_raises(start, stop, step),
                  arange(start, stop, step))
levels_and_norm ==
    IF args.boundary = None
    THEN IF args.plot_range = None
         THEN Raise("TypeError") /\ render' = render
         ELSE range_levels(args.plot_range[1],
                           fadd(args.plot_range[2], args.plot_range[3]),
                           args.plot_range[3])
    ELSE IF Len(args.boundary) < 2 \/ Len(args.boundary) > 257
         THEN /\ Raise("ValueError")
              /\ render' = [render EXCEPT !.levels = args.boundary]
         ELSE /\ render' = [render EXCEPT !.levels = args.boundary,
                                          !.norm = "BoundaryNorm"]
              /\ Goto("dims")

\* mutant: the output directory is created before anything else
plot_levels_mkdir ==
    /\ prog = "plot" /\ pc = "levels"
    /\ out' = [out EXCEPT !.dir = TRUE]
    /\ levels_and_norm
    /\ UNCHANGED <<plotframe, trace>>

\* lines 386-411: colour map, normalization and levels
plot_levels ==
    /\ prog = "plot" /\ pc = "levels"
    /\ levels_and_norm
    /\ UNCHANGED <<plotframe, trace, out>>

\* line 430: the order transform_scalar interpolates with
interpolation_order == [nearest |-> 0, bilinear |-> 1, cubic |-> 3]

\* lines 417-422: the number of grid points of degrees at a spacing of d,
\* before np.int64, and what the line raises: ZeroDivisionError for a
\* spacing of zero, or what np.int64 raises
points(degrees, d, interval) ==
    IF interval = 1
    THEN fadd(fdiv(Whole(degrees), d), Whole(1))
    ELSE fdiv(Whole(degrees), d)
points_raises(degrees, d, interval) ==
    IF d = Zero THEN "ZeroDivisionError"
    ELSE int64_raises(points(degrees, d, interval))

\* lines 417-430: the grid dimensions of the points lon and lat and the
\* interpolation order; a line that raises leaves the locals assigned
\* before it; a local that no branch assigns stays unassigned
grid_dims(dlon, dlat, lon_raises, lat_raises, lon, lat) ==
    LET dims == args.interval \in {1, 2}
        known == args.interpolation \in DOMAIN interpolation_order
    IN  IF dims /\ lon_raises # ""
        THEN /\ Raise(lon_raises)
             /\ render' = [render EXCEPT !.dlon = dlon, !.dlat = dlat]
        ELSE IF dims /\ lat_raises # ""
        THEN /\ Raise(lat_raises)
             /\ render' = [render EXCEPT
                    !.dlon = dlon, !.dlat = dlat,
                    !.nlon = int64(lon),
                    !.assigned = @ \cup {"nlon"}]
        ELSE /\ render' = [render EXCEPT
                    !.dlon = dlon, !.dlat = dlat,
                    !.nlon = IF dims THEN int64(lon) ELSE @,
                    !.nlat = IF dims THEN int64(lat) ELSE @,
                    !.order = IF known
                              THEN interpolation_order[args.interpolation]
                              ELSE @,
                    !.assigned = @ \cup (IF dims THEN {"nlon", "nlat"}
                                         ELSE {})
                                   \cup (IF known THEN {"order"} ELSE {})]
             /\ Goto("read")

\* lines 413-430: grid spacing, grid dimensions and interpolation order
plot_dims ==
    /\ prog = "plot" /\ pc = "dims"
    /\ LET DDEG == args.spacing
           dlon == DDEG[1]
           dlat == IF Len(DDEG) = 1 THEN DDEG[1] ELSE DDEG[2]
       IN  grid_dims(dlon, dlat,
                     points_raises(360, dlon, args.interval),
                     points_raises(180, dlat, args.interval),
                     points(360, dlon, args.interval),
                     points(180, dlat, args.interval))
    /\ UNCHANGED <<plotframe, trace, out>>

\* lines 432-446: the reader of each data format
reader == [ascii |-> "from_ascii", netCDF4 |-> "from_netCDF4",
           HDF5 |-> "from_HDF5"]

\* lines 432-470: read the input file and the land-sea mask, and flip the
\* dataset when dlat is negative; a file that cannot be read raises
\* OSError; the ascii reader is given nlat and nlon; the mask and the flip
\* use dinput
plot_read ==
    /\ prog = "plot" /\ pc = "read"
    /\ IF args.format = "ascii" /\ ~({"nlon", "nlat"} \subseteq
                                        render.assigned)
       THEN Raise("UnboundLocalError") /\ render' = render
       ELSE IF args.format \notin DOMAIN reader
       THEN IF MASK(args) # None \/ negative(render.dlat)
            THEN Raise("UnboundLocalError") /\ render' = render
            ELSE Goto("figure") /\ render' = render
       ELSE \E readable \in BOOLEAN :
            IF readable
            THEN /\ render' = [render EXCEPT
                        !.reader = reader[args.format],
                        !.masked = masked_cells(infile, MASK(args)),
                        !.flipped = negative(render.dlat),
                        !.assigned = @ \cup {"dinput"}]
                 /\ Goto("figure")
            ELSE Raise("OSError") /\ render' = render
    /\ UNCHANGED <<plotframe, trace, out>>

\* lines 296-334: plot_image_mosaic draws the MODIS mosaic on the axes
plot_image_mosaic == <<Layer("imshow", "mosaic", <<>>)>>

\* what osgeo.gdal.Open of a mosaic that cannot be read leads to: None,
\* and AttributeError at ds.GetGeoTransform(), or RuntimeError in a build
\* of GDAL that raises exceptions
gdal_errors == {"AttributeError", "RuntimeError"}

\* lines 472-526: the figure of the region, the mosaic and the
\* interpolated image; the figure exists once region_figsize was looked
\* up; ocean points are removed from the image when a mask is given
plot_figure ==
    /\ prog = "plot" /\ pc = "figure"
    /\ LET mosaic == IF args.basemap THEN plot_image_mosaic ELSE <<>>
       IN  IF ~HasKey(region_figsize, args.region)
           THEN Raise("KeyError") /\ render' = render
           ELSE IF ~(/\ HasKey(region_xlimit, args.region)
                     /\ HasKey(region_ylimit, args.region))
           THEN /\ Raise("KeyError")
                /\ render' = [render EXCEPT !.fig = TRUE]
           ELSE \E mosaic_readable \in BOOLEAN : \E e \in gdal_errors :
                IF args.basemap /\ ~mosaic_readable
                THEN /\ Raise(e)
                     /\ render' = [render EXCEPT !.fig = TRUE]
                ELSE IF ~({"dinput", "order"} \subseteq render.assigned)
                THEN /\ Raise("UnboundLocalError")
                     /\ render' = [render EXCEPT !.fig = TRUE,
                                        !.layers = @ \o mosaic]
                ELSE /\ render' = [render EXCEPT
                            !.fig = TRUE,
                            !.mask_oceans = MASK(args) # None,
                            !.layers = @ \o mosaic
                                \o <<Layer("imshow", "image",
                                           <<render.order>>)>>]
                     /\ Goto("contours")
    /\ UNCHANGED <<plotframe, trace, out>>

\* lines 533-554: the contours of the levels clevs without zero, zero in
\* red, and the mean of the dataset in blue
line_contours(raised, clevs) ==
    IF raised # ""
    THEN Raise(raised) /\ render' = render
    ELSE /\ render' = [render EXCEPT !.layers = @
                \o <<Layer("contour", "0.2", nonzero(clevs)),
                     Layer("contour", "red", <<Zero>>)>>
                \o (IF args.mean_contour
                    THEN <<Layer("contour", "blue",
                                 mean(infile, render.masked))>>
                    ELSE <<>>)]
         /\ Goto("basins")
range_contours(start, stop, step) ==
    line_contours(arange_raises(start, stop, step), arange(start, stop, step))

\* lines 528-554: the line contours of CONTOUR_RANGE; CONTOUR_RANGE[0]
\* raises TypeError when CONTOUR_RANGE is None, and np.arange raises for a
\* step of zero, for nan and for a length out of range
plot_contours ==
    /\ prog = "plot" /\ pc = "contours"
    /\ IF ~args.plot_contours
       THEN render' = render /\ Goto("basins")
       ELSE IF args.contour_range = None
       THEN Raise("TypeError") /\ render' = render
       ELSE range_contours(args.contour_range[1],
                           fadd(args.contour_range[2],
                                args.contour_range[3]),
                           args.contour_range[3])
    /\ UNCHANGED <<plotframe, trace, out>>

\* lines 557-569: the basin types that draw an overlay, and the first
\* entity of the coastline that plot_grounded_ice draws with each
start_indice ==
    ("Rignot" :> 1) @@ ("IMBIE-2" :> 1) @@ ("IMBIE-2_subbasin" :> 1)
        @@ ("Amundsen" :> 0)

\* lines 110-111: the Rignot basins, one file each
region_title ==
    <<"AAp", "ApB", "BC", "CCp", "CpD", "DDp", "DpE", "EEp", "EpFp", "FpG",
      "GH", "HHp", "HpI", "IIpp", "IppJ", "JJpp", "JppK", "KKp", "KpA">>
\* lines 120-121: the names of the IMBIE-2 basins to draw
IMBIE_title ==
    <<"A-Ap", "Ap-B", "B-C", "C-Cp", "Cp-D", "D-Dp", "Dp-E", "E-Ep", "Ep-F",
      "F-Fp", "F-G", "G-H", "H-Hp", "Hp-I", "I-Ipp", "Ipp-J", "J-Jpp",
      "Jpp-K", "K-A">>
\* the polylines <<i, 1>> ... <<i, n>> of the n parts of entity i
RECURSIVE Parts(_, _)
Parts(i, n) == IF n = 0 THEN <<>> ELSE Parts(i, n - 1) \o <<<<i, n>>>>

\* the polylines of the entities from i on whose name is wanted, in the
\* order of the shapefile, one for each part
RECURSIVE plot_parts(_, _, _)
plot_parts(shapes, wanted, i) ==
    IF i > Len(shapes) THEN <<>>
    ELSE (IF shapes[i].name \in wanted
          THEN Parts(i, shapes[i].parts)
          ELSE <<>>)
            \o plot_parts(shapes, wanted, i + 1)

\* lines 210-220: plot_rignot_basins draws the basin of each file read
RECURSIVE plot_rignot_basins(_)
plot_rignot_basins(nread) ==
    IF nread = 0 THEN <<>>
    ELSE plot_rignot_basins(nread - 1) \o <<<<nread, 1>>>>

\* lines 223-242: plot_IMBIE2_basins draws the entities named in
\* IMBIE_title
plot_IMBIE2_basins(shapes) == plot_parts(shapes, Range(IMBIE_title), 1)

\* lines 245-263: plot_IMBIE2_subbasins draws the entities not named
\* Islands
plot_IMBIE2_subbasins(shapes) ==
    plot_parts(shapes, {shapes[i].name : i \in 1..Len(shapes)}
                            \ {"Islands"}, 1)

\* lines 266-279: plot_amundsen_basins draws every entity from i on as one
\* polyline, up to an entity without points, where points[:,0] raises
\* IndexError
RECURSIVE plot_amundsen_basins(_, _)
plot_amundsen_basins(shapes, i) ==
    IF i > Len(shapes) \/ shapes[i].parts = 0 THEN <<>>
    ELSE <<<<i, 1>>>> \o plot_amundsen_basins(shapes, i + 1)

\* the basin shapefiles and the coastline shapefiles of the model
Shapefiles ==
    {<<Shape("Islands", 2), Shape("B-C", 2), Shape("A-Ap", 1)>>,
     <<Shape("A-Ap", 1), Shape("Ap-B", 0), Shape("K-A", 1)>>}
Coastlines ==
    {<<Shape("ice sheet", 1), Shape("island", 1), Shape("ice cap", 1)>>,
     <<Shape("point", 0), Shape("ice sheet", 1), Shape("island", 1)>>}

\* an overlay of the basins drawn, when one was
basins_layer(type, drawn) ==
    IF drawn = <<>> THEN <<>> ELSE <<Layer("basins", type, drawn)>>

\* lines 556-583: basins, grounded ice and grid lines. The Rignot basins
\* are read and drawn file by file; the other overlays are drawn from one
\* shapefile; the coastline shapefile is read after the overlay is drawn.
\* A basin file of Rignot that cannot be read raises OSError (np.loadtxt),
\* a shapefile that cannot be opened raises ShapefileException
\* (shapefile.Reader); either leaves what was drawn
plot_basins ==
    /\ prog = "plot" /\ pc = "basins"
    /\ \E nread \in 0..Len(region_title) : \E shapes \in Shapefiles :
       \E coast \in Coastlines : \E basins_readable, coast_readable \in BOOLEAN :
        LET type == args.basin_type
            START == IF type \in DOMAIN start_indice
                     THEN start_indice[type] ELSE 0
            drawn ==
                CASE type = "Rignot" -> plot_rignot_basins(nread)
                  [] type = "IMBIE-2" /\ basins_readable ->
                        plot_IMBIE2_basins(shapes)
                  [] type = "IMBIE-2_subbasin" /\ basins_readable ->
                        plot_IMBIE2_subbasins(shapes)
                  [] type = "Amundsen" /\ basins_readable ->
                        plot_amundsen_basins(shapes, 1)
                  [] OTHER -> <<>>
            raised ==
                CASE type = "Rignot" /\ nread < Len(region_title) -> "OSError"
                  [] type \in {"IMBIE-2", "IMBIE-2_subbasin", "Amundsen"}
                        /\ ~basins_readable -> "ShapefileException"
                  [] type = "Amundsen" /\ Len(drawn) < Len(shapes) ->
                        "IndexError"
                  [] OTHER -> ""
        IN  IF raised # ""
            THEN /\ Raise(raised)
                 /\ render' = [render EXCEPT !.layers = @
                        \o basins_layer(type, drawn)]
            ELSE IF ~coast_readable
            THEN /\ Raise("ShapefileException")
                 /\ render' = [render EXCEPT !.layers = @
                        \o basins_layer(type, drawn)]
            ELSE /\ render' = [render EXCEPT
                        !.coast = coast,
                        !.layers = @ \o basins_layer(type, drawn)
                        \o <<Layer("grounded_ice", "k",
                                   plot_grounded_ice(coast, START))>>]
                 /\ Goto("colorbar")
    /\ UNCHANGED <<plotframe, trace, out>>

\* lines 585-603: the colorbar; the ticks are set before
\* region_cb_length is looked up
plot_colorbar ==
    /\ prog = "plot" /\ pc = "colorbar"
    /\ IF ~(/\ HasKey(region_cb_axis, args.region)
            /\ HasKey(region_fontsize, args.region))
       THEN Raise("KeyError") /\ render' = render
       ELSE IF ~HasKey(region_cb_length, args.region)
       THEN /\ Raise("KeyError")
            /\ render' = [render EXCEPT !.ticks = render.levels]
       ELSE /\ render' = [render EXCEPT !.ticks = render.levels]
            /\ Goto("label")
    /\ UNCHANGED <<plotframe, trace, out>>

\* lines 337-350: add_plot_scale draws, over a white box when masked,
\* four boxes of alternating colours, their frame, three ticks with their
\* distance in km, and the unit
add_plot_scale(X, Y, dx, dy, masked) ==
    (IF masked
     THEN <<Layer("fill", "w", <<>>)>>
     ELSE <<>>)
    \o [i \in 1..4 |->
            Layer("fill", IF i % 2 = 1 THEN "w" ELSE "k",
                  <<X + ((i - 1) * dx) \div 4, X + (i * dx) \div 4,
                    Y, Y + dy>>)]
    \o <<Layer("plot", "k", <<X, X + dx, Y, Y + dy>>)>>
    \o [j \in 1..6 |->
            LET i == (j - 1) \div 2 IN
            IF j % 2 = 1
            THEN Layer("plot", "k", <<X + (i * dx) \div 2, Y>>)
            ELSE Layer("text", "k",
                       <<X + (i * dx) \div 2, ((i * dx) \div 2) \div 1000>>)]
    \o <<Layer("text", "km", <<X + dx \div 2>>)>>

\* lines 605-641: axes, title, label, map scale and subplot adjustment
plot_label ==
    /\ prog = "plot" /\ pc = "label"
    /\ LET label == IF args.plot_label
                    THEN <<Layer("add_artist", "label", <<>>)>>
                    ELSE <<>>
           scale == region_plotscale[args.region]
       IN  IF args.plot_label /\ ~HasKey(region_labelsize, args.region)
           THEN Raise("KeyError") /\ render' = render
           ELSE IF args.draw_scale
                    /\ ~HasKey(region_plotscale, args.region)
           THEN /\ Raise("KeyError")
                /\ render' = [render EXCEPT !.layers = @ \o label]
           ELSE IF ~HasKey(region_sub_adjust, args.region)
           THEN /\ Raise("KeyError")
                /\ render' = [render EXCEPT !.layers = @ \o label
                        \o (IF args.draw_scale
                            THEN add_plot_scale(scale[1], scale[2],
                                    scale[3], scale[4], scale[5])
                            ELSE <<>>)]
           ELSE /\ render' = [render EXCEPT !.layers = @ \o label
                        \o (IF args.draw_scale
                            THEN add_plot_scale(scale[1], scale[2],
                                    scale[3], scale[4], scale[5])
                            ELSE <<>>)]
                /\ Goto("mkdir")
    /\ UNCHANGED <<plotframe, trace, out>>

\* line 643: FIGURE_FILE.parent.mkdir(mode=MODE, parents=True,
\* exist_ok=True); FIGURE_FILE is None when --figure-file is absent
plot_mkdir ==
    /\ prog = "plot" /\ pc = "mkdir"
    /\ IF ~args.figure_file
       THEN Raise("AttributeError") /\ UNCHANGED <<trace, out>>
       ELSE /\ out' = [out EXCEPT !.dir = TRUE]
            /\ trace' = Append(trace, <<"mkdir">>)
            /\ Goto("savefig")
    /\ UNCHANGED <<plotframe, render>>

\* lines 645-648: plt.savefig(FIGURE_FILE, ...); a file that cannot be
\* written raises OSError
plot_savefig ==
    /\ prog = "plot" /\ pc = "savefig"
    /\ \E writable \in BOOLEAN :
        IF writable
        THEN /\ out' = [out EXCEPT !.present = TRUE,
                        !.mode = IF out.present THEN @
                                 ELSE NewFileMode(umask),
                        !.saves = @ + 1]
             /\ trace' = Append(trace, <<"savefig">>)
             /\ Goto("clf")
        ELSE Raise("OSError") /\ UNCHANGED <<trace, out>>
    /\ UNCHANGED <<plotframe, render>>

\* line 649: plt.clf()
plot_clf ==
    /\ prog = "plot" /\ pc = "clf"
    /\ trace' = Append(trace, <<"clf">>)
    /\ Goto("chmod")
    /\ UNCHANGED <<plotframe, render, out>>

\* line 651: FIGURE_FILE.chmod(mode=MODE)
plot_chmod ==
    /\ prog = "plot" /\ pc = "chmod"
    /\ out' = [out EXCEPT !.mode = args.mode]
    /\ trace' = Append(trace, <<"chmod">>)
    /\ Goto("return")
    /\ UNCHANGED <<plotframe, render>>

\* plot_grid returns and main() returns after line 835
plot_return ==
    /\ prog = "plot" /\ pc = "return"
    /\ exit' = "returned"
    /\ pc' = "exit"
    /\ UNCHANGED <<prog, cmd, args, exc, log, calls, trace, umask, euid, fs, fs0,
                   loopvars, fid, out, out0, infile, render, runs, fs1>>

\* lines 836-841: the handler of main() calls logging.critical with the
\* failure and logging.error with the traceback; an exception it does not
\* catch leaves main()
plot_except ==
    /\ prog = "plot" /\ pc = "raise"
    /\ IF except_Exception(exc)
       THEN /\ log' = log
                    \o Emit(50, loglevels[args.verbose + 1],
                            <<"critical", "process id failed">>)
                    \o Emit(40, loglevels[args.verbose + 1],
                            <<"error", exc>>)
            /\ exit' = "returned"
       ELSE /\ log' = log
            /\ exit' = "uncaught"
    /\ pc' = "exit"
    /\ UNCHANGED <<prog, cmd, args, exc, calls, trace, umask, euid, fs, fs0,
                   loopvars, fid, out, out0, infile, render, runs, fs1>>

----------------------------------------------------------------------------
(* The inputs: command lines and file systems *)

\* the names of data files that may be present in a product directory:
\* CSR GSM files of both missions and two versions, and files of another
\* product, another center and another release
Universe ==
    {File("GSM", d, mi, "CSR", "RL06", v) :
        d \in 1..MaxDate, mi \in {"GRAC", "GRFO"}, v \in {"0", "1"}}
    \cup {File("GAC", 1, "GRAC", "CSR", "RL06", "0"),
          File("GSM", 1, "GRFO", "GFZ", "RL06", "1"),
          File("GSM", 1, "GRAC", "CSR", "RL05", "0")}
Contents == {S \in SUBSET Universe : Cardinality(S) <= MaxFiles}

\* a GRACE-FO file that sorts before a GRACE file
Sample == {File("GSM", 1, "GRFO", "CSR", "RL06", "1"),
           File("GSM", 2, "GRAC", "CSR", "RL06", "0")}

\* an index.txt left by somebody else, with mode 0o600
OldIndex == [present |-> TRUE,
             lines |-> <<File("GSM", 1, "GRAC", "CSR", "RL05", "0")>>,
             mode |-> 384]

\* umask 0o022 and 0o077
Umasks == {18, 63}
\* mode strings: 644, 400, and 9 which is not octal
ModeStrings == {<<6, 4, 4>>, <<4, 0, 0>>, <<9>>}

\* every product directory holds the same data files; the directories
\* of missing are those os.listdir cannot list
MkFs(content, missing, old) ==
    [d \in Dirs |-> Dir(d \notin missing, content, old)]

IndexCmd(center, release, version, mode) ==
    [center |-> center, release |-> release, version |-> version,
     mode |-> mode]
Input(c, content, missing, old, mask, uid) ==
    [cmd |-> c, content |-> content, missing |-> missing, old |-> old,
     umask |-> mask, euid |-> uid]

\* many directory contents under a few command lines
FileInputs ==
    {Input(IndexCmd(Opt(TRUE, <<pr>>), Absent, version, Absent),
           content, {}, NoIndex, 18, 1000) :
        pr \in {"CSR", "GFZ"},
        version \in {Absent, Opt(TRUE, <<"1", "0">>),
                     Opt(TRUE, <<"1", "1">>)},
        content \in Contents}

\* many command lines, one option at a time, over one directory content
CenterOpts ==
    {Absent} \cup {Opt(TRUE, v) : v \in SeqsOf(Centers \cup {"XYZ"},
                                               0, MaxValues)}
ReleaseOpts ==
    {Opt(TRUE, v) : v \in SeqsOf({"RL05", "RL06"}, 0, MaxValues)}
VersionOpts ==
    {Opt(TRUE, v) : v \in SeqsOf({"0", "3", "4"}, 0, MaxVersions)}
ModeOpts == {Absent} \cup {Opt(TRUE, <<m>>) : m \in ModeStrings}
                    \cup {Opt(TRUE, <<>>)}
ArgInputs ==
    {Input(c, Sample, {}, old, 18, 1000) :
        c \in {IndexCmd(o, Absent, Absent, Absent) : o \in CenterOpts}
          \cup {IndexCmd(Opt(TRUE, <<"CSR">>), o, Absent, Absent) :
                    o \in ReleaseOpts}
          \cup {IndexCmd(Opt(TRUE, <<"CSR">>), Absent, o, Absent) :
                    o \in VersionOpts}
          \cup {IndexCmd(Opt(TRUE, <<"CSR">>), Absent, Absent, o) :
                    o \in ModeOpts},
        old \in {NoIndex, OldIndex}}

\* a missing product directory, an old index.txt, another umask, a
\* read-only mode, the root user
EnvInputs ==
    {Input(IndexCmd(Opt(TRUE, <<"CSR">>), Absent, Absent, mode),
           Sample, missing, old, mask, uid) :
        mode \in {Absent, Opt(TRUE, <<<<6, 4, 4>>>>),
                  Opt(TRUE, <<<<4, 0, 0>>>>)},
        uid \in {0, 1000},
        missing \in {{}} \cup {{d} : d \in Selected(<<"CSR">>, <<"RL06">>)},
        old \in {NoIndex, OldIndex},
        mask \in Umasks}

IndexInputs == FileInputs \cup ArgInputs \cup EnvInputs

\* the command lines of the map renderer and the state of the figure file
\* the command line: infile --region ASE --plot-range 0 4 2
\* --figure-file out.png
PlotCmd ==
    [region |-> Opt(TRUE, <<"ASE">>), mode |-> Absent,
     format |-> Absent, mask |-> Absent, spacing |-> Absent,
     interval |-> Absent, interpolation |-> Absent,
     plot_range |-> Opt(TRUE, Tokens(<<0, 4, 2>>)), boundary |-> Absent,
     plot_contours |-> FALSE, contour_range |-> Absent,
     mean_contour |-> FALSE, basin_type |-> Absent, basemap |-> FALSE,
     plot_label |-> FALSE, draw_scale |-> FALSE, figure_file |-> TRUE,
     verbose |-> 0]

\* input grids whose mean is the same in doubles and in whole numbers
\* (the unmasked cells hold one value, a power of two or zero): mean 2;
\* mean 0; a valid cell and an invalid one, mean 1; land, ocean and ice
\* shelf, mean 4
Grid == <<Cell(0, 2, TRUE, 1), Cell(0, 2, TRUE, 1)>>
Grids ==
    {Grid,
     <<Cell(0, 0, TRUE, 1), Cell(0, 0, TRUE, 1)>>,
     <<Cell(0, 1, TRUE, 1), Cell(0, 5, FALSE, 0)>>,
     <<Cell(0, 4, TRUE, 1), Cell(0, 4, TRUE, 0), Cell(0, 4, TRUE, 4)>>}

PlotInput(c, o, grid) == [cmd |-> c, out |-> o, infile |-> grid]

\* region, mode, labels, figure file and verbosity over every state of
\* the figure file
OutputCmds ==
    {[PlotCmd EXCEPT !.region = region, !.mode = mode,
                     !.plot_range = plot_range, !.boundary = boundary,
                     !.plot_label = label, !.draw_scale = scale,
                     !.figure_file = figure_file, !.verbose = verbose] :
        region \in {Absent, Opt(TRUE, <<>>)}
                \cup {Opt(TRUE, <<r>>) :
                        r \in {"ASE", "CpD", "IIpp", "QML", "AIS"}},
        mode \in {Absent, Opt(TRUE, <<<<6, 4, 4>>>>), Opt(TRUE, <<<<9>>>>)},
        plot_range \in {Absent, Opt(TRUE, Tokens(<<0, 4, 2>>))},
        boundary \in {Absent, Opt(TRUE, Tokens(<<0, 1, 3>>))},
        label \in BOOLEAN, scale \in BOOLEAN,
        figure_file \in BOOLEAN,
        verbose \in {0, 1, 3}}

\* plot ranges of whole numbers whose step divides the range or not,
\* descending ones, ranges of tenths, steps of zero and of 1e-20, nan, too
\* few and too many values
PlotRanges ==
    {Tokens(v) : v \in {<<0, 4, 2>>, <<0, 5, 2>>, <<-2, 2, 1>>, <<1, 2, 3>>,
                        <<4, 0, 2>>, <<4, 0, -2>>, <<0, 4, 0>>, <<0, 4>>,
                        <<0, 4, 2, 1>>}}
        \cup {<<Dec(1, 0), Dec(12, 1), Dec(1, 1)>>,
              <<Dec(0, 0), Dec(9, 1), Dec(3, 1)>>,
              <<Dec(0, 0), Dec(4, 1), Dec(2, 1)>>,
              <<Dec(0, 0), Dec(6, 1), Dec(3, 1)>>,
              <<Dec(-2, 1), Dec(2, 1), Dec(1, 1)>>,
              <<Dec(0, 0), Dec(4, 0), Dec(1, 20)>>,
              <<NanToken, Dec(4, 0), Dec(2, 0)>>,
              <<Dec(0, 0), Dec(4, 0), NanToken>>}
\* boundary lists of no value, of one and of more
Boundaries ==
    {<<>>, <<Dec(1, 0)>>, Tokens(<<0, 1, 3>>), <<Dec(-2, 0), Dec(5, 1)>>}
LevelCmds ==
    {[PlotCmd EXCEPT !.plot_range = plot_range, !.boundary = boundary,
                     !.verbose = verbose] :
        plot_range \in {Absent} \cup {Opt(TRUE, v) : v \in PlotRanges},
        boundary \in {Absent} \cup {Opt(TRUE, v) : v \in Boundaries},
        verbose \in {0, 1}}

\* spacings of one value and of two, of zero, below zero, of 1e-20 and
\* nan, and of no value and of three
Spacings ==
    {<<>>, <<Dec(5, 1)>>, <<Dec(1, 0), Dec(5, 1)>>, <<Dec(35, 1)>>,
     <<Dec(0, 0)>>, <<Dec(5, 1), Dec(0, 0)>>, <<Dec(5, 1), Dec(-5, 1)>>,
     <<Dec(-7, 1)>>, <<NanToken>>, <<Dec(1, 20)>>,
     <<Dec(5, 1), Dec(1, 20)>>, Tokens(<<1, 1, 1>>)}

\* data format, spacing, interval and interpolation, with tokens that
\* the parser rejects
GridCmds ==
    {[PlotCmd EXCEPT !.format = format, !.spacing = spacing,
                     !.interval = interval,
                     !.interpolation = interpolation] :
        format \in {Absent} \cup {Opt(TRUE, <<v>>) :
            v \in {"ascii", "netCDF4", "HDF5", "txt"}},
        spacing \in {Absent} \cup {Opt(TRUE, v) : v \in Spacings},
        interval \in {Absent} \cup {Opt(TRUE, <<v>>) : v \in {1, 2, 3}},
        interpolation \in {Absent} \cup {Opt(TRUE, <<v>>) :
            v \in {"nearest", "bilinear", "cubic", "linear"}}}

\* the land-sea mask, the contours and the basins over every grid
MaskCmds ==
    {[PlotCmd EXCEPT !.mask = mask, !.plot_contours = contours,
                     !.contour_range = contour_range,
                     !.mean_contour = mean_contour] :
        mask \in {Absent, Opt(TRUE, <<"mask.nc">>)},
        contours \in BOOLEAN,
        contour_range \in {Absent} \cup {Opt(TRUE, Tokens(v)) :
            v \in {<<-2, 2, 1>>, <<1, 4, 1>>, <<0, 4, 2>>, <<0, 4, 0>>}},
        mean_contour \in BOOLEAN}
BasinCmds ==
    {[PlotCmd EXCEPT !.basin_type = basin_type, !.basemap = basemap,
                     !.plot_contours = contours,
                     !.contour_range = Opt(TRUE, Tokens(<<-2, 2, 1>>))] :
        basin_type \in {Absent} \cup {Opt(TRUE, <<v>>) : v \in BasinTypes},
        basemap \in BOOLEAN,
        contours \in BOOLEAN}

PlotCmds == OutputCmds \cup LevelCmds \cup GridCmds \cup MaskCmds
                \cup BasinCmds

Outs == {Out(FALSE, FALSE, 0, 0), Out(TRUE, FALSE, 0, 0),
         Out(TRUE, TRUE, 384, 0)}

PlotInputs ==
    {PlotInput(c, o, Grid) : c \in OutputCmds, o \in Outs}
        \cup {PlotInput(c, Out(TRUE, FALSE, 0, 0), Grid) :
                c \in LevelCmds \cup GridCmds \cup BasinCmds}
        \cup {PlotInput(c, Out(TRUE, FALSE, 0, 0), grid) :
                c \in MaskCmds, grid \in Grids}

----------------------------------------------------------------------------
(* The specification *)

InitIndex ==
    \E in \in IndexInputs :
        /\ prog = "index"
        /\ cmd = in.cmd
        /\ umask = in.umask
        /\ euid = in.euid
        /\ fs = MkFs(in.content, in.missing, in.old)
        /\ out = Out(FALSE, FALSE, 0, 0)
        /\ infile = <<>>
        /\ render = <<>>

InitPlot ==
    \E in \in PlotInputs :
        /\ prog = "plot"
        /\ cmd = in.cmd
        /\ umask = 18
        /\ euid = 1000
        /\ fs = MkFs({}, {}, NoIndex)
        /\ out = in.out
        /\ infile = in.infile
        /\ render = NoRender

Init ==
    /\ InitIndex \/ InitPlot
    /\ args = <<>>
    /\ pc = "parse"
    /\ exit = "running"
    /\ exc = ""
    /\ log = <<>>
    /\ calls = 0
    /\ trace = <<>>
    /\ fs0 = fs
    /\ out0 = out
    /\ ipr = 1 /\ irl = 1 /\ ids = 1 /\ imi = 1
    /\ grace_files = <<>>
    /\ fid = {}
    /\ runs = 1
    /\ fs1 = fs

Next ==
    \/ index_main
    \/ listdir
    \/ open
    \/ write
    \/ close
    \/ chmod
    \/ index_return
    \/ index_raise
    \/ index_again
    \/ plot_main
    \/ plot_levels
    \/ plot_dims
    \/ plot_read
    \/ plot_figure
    \/ plot_contours
    \/ plot_basins
    \/ plot_colorbar
    \/ plot_label
    \/ plot_mkdir
    \/ plot_savefig
    \/ plot_clf
    \/ plot_chmod
    \/ plot_return
    \/ plot_except

Spec == Init /\ [][Next]_vars

----------------------------------------------------------------------------
(* Properties of make_grace_index *)

\* the run of the index builder has completed
IndexDone == prog = "index" /\ exit = "returned"

\* the directories whose index.txt was opened for writing in this run
Written == {t[2] : t \in {u \in Range(trace) : u[1] = "open"}}

\* the filenames of directory d that one of the two regular expressions
\* selects: GRACE with VERSION[0], GRACE-FO with VERSION[1]
Matching(d, VERSION) ==
    {f \in fs[d].files \cup {IndexName} :
        \/ match(compile_regex_pattern(d[1], d[2], d[3], "GRAC",
                 VERSION[1]), f)
        \/ match(compile_regex_pattern(d[1], d[2], d[3], "GRFO",
                 VERSION[2]), f)}

\* the products of a center as the documentation lists them
ProductsOf(pr) ==
    IF pr = "CSR" THEN {"GAC", "GAD", "GSM"}
    ELSE {"GAA", "GAB", "GAC", "GAD", "GSM"}
SelectedDirs ==
    {d \in Dirs : /\ d[1] \in Range(args.center)
                  /\ d[2] \in Range(args.release)
                  /\ d[3] \in ProductsOf(d[1])}

\* C1: after make_grace_index completes, the set of lines of the index.txt
\* of every selected directory is exactly the set of filenames of the
\* directory that the GRACE regex (VERSION[0]) or the GRACE-FO regex
\* (VERSION[1]) matches
C1_IndexIsMatchingSet ==
    IndexDone =>
        \A d \in SelectedDirs :
            /\ fs[d].index.present
            /\ Range(fs[d].index.lines) = Matching(d, args.version)

\* a completed run over a directory that holds a file of each mission
\* that matches and a file that does not
C1_Witness ==
    /\ IndexDone
    /\ \E d \in SelectedDirs :
        /\ \E f, g \in Range(fs[d].index.lines) :
                f.mi = "GRAC" /\ g.mi = "GRFO"
        /\ fs[d].files \ Range(fs[d].index.lines) # {}

\* the lines of an index are in ascending order
Ascending(lines) ==
    \A i, j \in 1..Len(lines) : i < j => ~NameLess(lines[j], lines[i])

\* C2: every index.txt written holds its filenames in ascending
\* lexicographic order over the whole file, GRACE and GRACE-FO names
\* merged, whatever order the directory listing returned
C2_IndexSorted ==
    prog = "index" =>
        \A d \in Written : Ascending(fs[d].index.lines)

\* an index in which a GRACE-FO name comes before a GRACE name
C2_Witness ==
    /\ IndexDone
    /\ \E d \in Written :
        /\ Len(fs[d].index.lines) >= 2
        /\ fs[d].index.lines[1].mi = "GRFO"
        /\ fs[d].index.lines[2].mi = "GRAC"

\* C4: a run that completes writes an index.txt in exactly the selected
\* product directories (GAC, GAD, GSM for CSR; GAA, GAB, GAC, GAD, GSM for
\* GFZ and JPL), also where no filename matches, and in no other directory
C4_IndexInSelectedDirs ==
    IndexDone =>
        /\ Written = SelectedDirs
        /\ \A d \in SelectedDirs : fs[d].index.present
        /\ \A d \in Dirs \ SelectedDirs : fs[d].index = fs0[d].index

\* a completed run that created an empty index.txt
C4_Witness ==
    /\ IndexDone
    /\ \E d \in SelectedDirs :
        /\ ~fs0[d].index.present
        /\ fs[d].index.present
        /\ fs[d].index.lines = <<>>
        /\ fs[d].files # {}

\* the number a mode string of three octal digits stands for;
\* 0o775 when --mode is absent
Requested(c) ==
    IF ~c.mode.given THEN 509
    ELSE LET str == c.mode.vals[1]
         IN  64 * str[1] + 8 * str[2] + str[3]

\* C3: after a run that completes without error every file written has
\* exactly the requested permission bits: each index.txt written and the
\* figure file have the mode given by --mode read as an octal number
\* (default 0o775), whatever the mode before and the umask
C3_ModeAsRequested ==
    (exit = "returned" /\ exc = "") =>
        /\ prog = "index" =>
            \A d \in Written : fs[d].index.mode = Requested(cmd)
        /\ (prog = "plot" /\ out.saves > 0) => out.mode = Requested(cmd)

\* a run of the index builder with --mode 644 under umask 0o077 that
\* rewrote an index.txt of mode 0o600
C3_Witness ==
    /\ prog = "index" /\ exit = "returned" /\ exc = ""
    /\ cmd.mode.given /\ Requested(cmd) = 420
    /\ umask = 63
    /\ \E d \in Written :
        /\ fs0[d].index.present /\ fs0[d].index.mode = 384
        /\ fs[d].index.mode = 420

----------------------------------------------------------------------------
(* Properties of the error handling and of the parsers *)

\* C5: any exception raised while plot_grid runs is caught by the handler
\* of main, which logs 'process id <pid> failed' and the traceback; main
\* returns normally and plot_grid is called at most once
C5_PlotHandler ==
    prog = "plot" =>
        /\ calls <= 1
        /\ (pc = "exit" /\ exc # "" /\ calls = 1) =>
            /\ exit = "returned"
            /\ log = <<<<"critical", "process id failed">>, <<"error", exc>>>>

\* C6 as stated: a failure during make_grace_index is caught by a
\* top-level exception handler that logs the failure and the process id
C6_IndexHandler ==
    (prog = "index" /\ pc = "exit" /\ exc # "") =>
        /\ exit = "returned"
        /\ \E i \in 1..Len(log) : log[i][1] = "critical"

\* C6 amended: a failure during make_grace_index is caught by no handler;
\* the exception leaves main and the script logs nothing
C6_IndexNoHandler ==
    (prog = "index" /\ pc = "exit" /\ exc # "") =>
        /\ exit = "uncaught"
        /\ log = <<>>

\* a run that ended at a product directory that does not exist
C6_Witness ==
    /\ prog = "index" /\ pc = "exit" /\ exc = "FileNotFoundError"
    /\ ~fs[local_dir].exists

\* a value of an option is outside its choices
Outside(opt, n, choices) ==
    opt.given /\ \E i \in 1..n : i <= Len(opt.vals) /\ opt.vals[i] \notin choices
BadCenter == Outside(cmd.center, Len(cmd.center.vals), {"CSR", "GFZ", "JPL"})
BadRelease == Outside(cmd.release, Len(cmd.release.vals), {"RL06"})
NoIndexRun == calls = 0 /\ trace = <<>> /\ (pc # "parse" => exit = "usage")

\* C7 as stated: the parser rejects, before make_grace_index is called,
\* every command line whose --center has a value outside {CSR, GFZ, JPL},
\* whose --release has a value other than RL06, or whose --version does
\* not consist of exactly two values each in {0, 1, 2, 3}
C7_RejectsAsStated ==
    (/\ prog = "index"
     /\ \/ BadCenter
        \/ BadRelease
        \/ /\ cmd.version.given
           /\ \/ Len(cmd.version.vals) # 2
              \/ Outside(cmd.version, 2, {"0", "1", "2", "3"}))
    => NoIndexRun

\* C7 amended: ... or whose --version is followed by fewer than two values
\* or has one of its first two values outside {0, 1, 2, 3}; values after
\* the second are not rejected: the first two are used, the rest ignored
C7_Rejects ==
    prog = "index" =>
        /\ (\/ BadCenter
            \/ BadRelease
            \/ /\ cmd.version.given
               /\ \/ Len(cmd.version.vals) < 2
                  \/ Outside(cmd.version, 2, {"0", "1", "2", "3"}))
           => NoIndexRun
        /\ (/\ cmd.version.given
            /\ Len(cmd.version.vals) > 2
            /\ ~Outside(cmd.version, 2, {"0", "1", "2", "3"})
            /\ ~BadCenter /\ ~BadRelease /\ ~cmd.mode.given
            /\ pc # "parse")
           => /\ calls = 1
              /\ args.version = <<cmd.version.vals[1], cmd.version.vals[2]>>

\* --version 0 3 4 was accepted and the run completed with versions 0, 3
C7_Witness ==
    /\ prog = "index" /\ cmd.version.given
    /\ cmd.version.vals = <<"0", "3", "4">>
    /\ exit = "returned" /\ args.version = <<"0", "3">>

\* the fixed set of regions
Regions == {"ASE", "CpD", "IIpp", "QML"}

\* C8: a command line with no --region or with a region outside
\* {ASE, CpD, IIpp, QML} is rejected before plot_grid is called, and every
\* per-region table lookup of plot_grid finds its key
C8_RegionLookups ==
    prog = "plot" =>
        /\ (~cmd.region.given \/ cmd.region.vals = <<>>
                \/ cmd.region.vals[1] \notin Regions)
            => (calls = 0 /\ (pc # "parse" => exit = "usage"))
        /\ calls > 0 => args.region \in Regions
        /\ exc # "KeyError"

\* plot_grid for Queen Maud Land with a label and a map scale is past
\* its last table lookup
C8_Witness ==
    /\ prog = "plot" /\ pc = "mkdir"
    /\ args.region = "QML" /\ args.draw_scale /\ args.plot_label

----------------------------------------------------------------------------
(* Order of the file operations *)

\* the file operations of one pass of the loop over the directories
Pass == <<"listdir", "listdir", "open", "write", "close", "chmod">>

\* C9: at most one index file is open at any moment; each index.txt is
\* opened, written and closed before its mode is changed, and the mode of
\* one directory's index.txt is changed before the next directory is
\* listed or its index.txt opened
C9_OneFileAtATime ==
    prog = "index" =>
        /\ Cardinality(fid) <= 1
        /\ \A i \in 1..Len(trace) :
            LET k == (i - 1) % 6 IN
                /\ trace[i][1] = Pass[k + 1]
                /\ trace[i][2] = trace[i - k][2]
        /\ fid = IF /\ trace # <<>>
                    /\ trace[Len(trace)][1] \in {"open", "write"}
                 THEN {trace[Len(trace)][2]}
                 ELSE {}

\* the second directory's index.txt is open after the first was chmod-ed
C9_Witness ==
    /\ prog = "index" /\ Len(trace) = 9
    /\ fid = {trace[9][2]}
    /\ trace[6] = <<"chmod", trace[1][2]>>
    /\ trace[9][2] # trace[1][2]

\* the output steps of plot_grid
OutputSteps == <<<<"mkdir">>, <<"savefig">>, <<"clf">>, <<"chmod">>>>

\* C10: the output steps of plot_grid happen in the order mkdir, savefig,
\* clf, chmod; the mode is changed only after the save succeeded; if an
\* earlier step raises, no figure file is created or modified and no
\* output directory is created
C10_OutputOrder ==
    prog = "plot" =>
        /\ Len(trace) <= 4
        /\ trace = SubSeq(OutputSteps, 1, Len(trace))
        /\ Len(trace) = 4 => out.saves = out0.saves + 1
        /\ Len(trace) < 4 => out.mode \in {out0.mode, NewFileMode(umask)}
        /\ Len(trace) < 2 => /\ out.present = out0.present
                             /\ out.saves = out0.saves
                             /\ out.mode = out0.mode
        /\ trace = <<>> => out = out0

\* plot_grid raised while reading, and the output directory is still absent
C10_Witness ==
    /\ prog = "plot" /\ pc = "exit" /\ exc = "OSError"
    /\ trace = <<>> /\ ~out.dir /\ args.figure_file

----------------------------------------------------------------------------
(* The version list, determinism, repetition and failure of the index
   builder *)

\* the two versions of the command line: the two values that follow
\* --version, or 0 and 1
GivenVersions ==
    IF cmd.version.given THEN SubSeq(cmd.version.vals, 1, 2)
    ELSE <<"0", "1">>

\* a data file named after the product directory d
NamedAfter(f, d) == f.pr = d[1] /\ f.rl = d[2] /\ f.ds = d[3]

\* C11: the version list is positional: its first element selects the
\* GRACE (GRAC) files and its second element the GRACE-FO (GRFO) files, for
\* every center, release and product; they are never swapped and neither
\* is applied to both missions
C11_VersionsPositional ==
    IndexDone =>
        \A d \in SelectedDirs :
            \A f \in fs[d].files :
                NamedAfter(f, d) =>
                    /\ f.mi = "GRAC" =>
                        (f \in Range(fs[d].index.lines)
                            <=> f.ver = GivenVersions[1])
                    /\ f.mi = "GRFO" =>
                        (f \in Range(fs[d].index.lines)
                            <=> f.ver = GivenVersions[2])

\* --version 1 0 : a GRACE file of version 1 is listed and a GRACE-FO
\* file of version 1 of the same directory is not
C11_Witness ==
    /\ IndexDone
    /\ GivenVersions = <<"1", "0">>
    /\ \E d \in SelectedDirs :
        \E f, g \in fs[d].files :
            /\ NamedAfter(f, d) /\ NamedAfter(g, d)
            /\ f.mi = "GRAC" /\ f.ver = "1"
            /\ g.mi = "GRFO" /\ g.ver = "1"
            /\ f \in Range(fs[d].index.lines)
            /\ g \notin Range(fs[d].index.lines)

\* C17: the index written for a directory is a function of the set of
\* filenames it holds and of the arguments: whatever order os.listdir
\* returns the names in, and whatever order the matching names are
\* collected in, the lines are the same sequence
C17_Deterministic ==
    IndexDone =>
        \A d \in SelectedDirs :
            \A p \in Perms(Matching(d, args.version)) :
                fs[d].index.lines = sorted(p)

\* a completed run over a directory that holds two matching files, one of
\* each mission, which a listing can return in either order
C17_Witness ==
    /\ IndexDone
    /\ \E d \in SelectedDirs :
        /\ Len(fs[d].index.lines) >= 2
        /\ \E f, g \in Range(fs[d].index.lines) :
            f.mi = "GRAC" /\ g.mi = "GRFO"

\* the second invocation has ended
SecondRunEnded == prog = "index" /\ runs = 2 /\ pc = "exit"

\* the original statement of C18: the second run completes and leaves
\* every index.txt with the content and the mode the first run left
C18_Idempotent ==
    SecondRunEnded => (exit = "returned" /\ fs = fs1)

\* C18: a second run with the same arguments on the directories a first
\* run left changes nothing the first run wrote, and never lists index.txt;
\* it completes, overwriting each index.txt with the same content and
\* mode, when the requested mode has the owner's write bit or the user is
\* root; otherwise open() raises PermissionError at the first index.txt
C18_IdempotentWhenWritable ==
    SecondRunEnded =>
        /\ fs = fs1
        /\ \A d \in Dirs : IndexName \notin Range(fs[d].index.lines)
        /\ exit = "returned"
            <=> (euid = 0 \/ (args.mode \div 128) % 2 = 1)
        /\ exit # "returned" =>
            (exit = "uncaught" /\ exc = "PermissionError")

\* a second run that completed over directories holding the index.txt
\* of the first run, with at least one line
C18_Witness ==
    /\ SecondRunEnded /\ exit = "returned"
    /\ \E d \in SelectedDirs :
        /\ fs1[d].index.present
        /\ fs[d].index.lines # <<>>
        /\ IndexName \in Listing(d)

\* C19: no filename appears twice in an index.txt, for every version pair,
\* a pair of equal versions included
C19_NoNameTwice ==
    IndexDone =>
        \A d \in SelectedDirs :
            Cardinality(Range(fs[d].index.lines)) = Len(fs[d].index.lines)

\* --version 1 1 over a directory with a GRACE and a GRACE-FO file of
\* version 1, both listed
C19_Witness ==
    /\ IndexDone
    /\ GivenVersions = <<"1", "1">>
    /\ \E d \in SelectedDirs :
        \E f, g \in Range(fs[d].index.lines) :
            f.mi = "GRAC" /\ g.mi = "GRFO" /\ f.ver = "1" /\ g.ver = "1"

\* the directories an operation op of the run was applied to
Done(op) == {t[2] : t \in {u \in Range(trace) : u[1] = op}}
\* the directories the run has touched
Touched == {t[2] : t \in Range(trace)}

\* make_grace_index has failed at a directory that cannot be listed
ListingFailed ==
    prog = "index" /\ exit = "uncaught" /\ exc = "FileNotFoundError"

\* C20: after a failure at a directory that cannot be listed, every
\* directory processed before has a complete, closed index.txt with the
\* requested mode; the failing directory's index.txt is as it was; no
\* other directory was listed, written or chmod-ed
C20_StateAfterFailure ==
    ListingFailed =>
        /\ ~fs[local_dir].exists
        /\ fs[local_dir] = fs0[local_dir]
        /\ local_dir \notin Touched
        /\ Touched = Done("chmod")
        /\ \A d \in Done("chmod") :
            /\ fs[d].index.present
            /\ fs[d].index.mode = args.mode
            /\ Range(fs[d].index.lines) = Matching(d, args.version)
            /\ Ascending(fs[d].index.lines)
            /\ d \notin fid
        /\ \A d \in Dirs \ Done("chmod") : fs[d] = fs0[d]

\* a failure at the second directory: the first one was indexed, the
\* failing one holds an old index.txt, and a third one was to follow
C20_Witness ==
    /\ ListingFailed
    /\ Done("chmod") # {}
    /\ fs0[local_dir].index.present
    /\ fs0[local_dir].index.lines # <<>>
    /\ \E d \in SelectedDirs \ Touched : d # local_dir

----------------------------------------------------------------------------
(* Properties of plot_grid *)

\* plot_grid was called
Called == prog = "plot" /\ calls > 0

\* the layers that operation op has drawn, by position
Drawn(op) == {i \in 1..Len(render.layers) : render.layers[i].op = op}
\* the interpolated image, by position
Image == {i \in Drawn("imshow") : render.layers[i].arg = "image"}
\* the contours drawn in a colour
Contour(colour) ==
    {i \in Drawn("contour") : render.layers[i].arg = colour}

\* the steps of plot_grid that follow the contours
AfterContours ==
    {"basins", "colorbar", "label", "mkdir", "savefig", "clf", "chmod",
     "return"}
\* the contour step has completed
ContoursDone ==
    /\ Called
    /\ pc \in AfterContours \/ (pc = "exit" /\ exc = "")

\* C12 as stated: the mask of --mask (by default the packaged one) is the
\* MASK of plot_grid, the cells of classes 1 to 3 are masked in the data
\* read and the ocean points are removed from the image
C12_MaskApplied ==
    Called =>
        /\ args.mask \in Paths
        /\ MASK(args) = args.mask
        /\ "dinput" \in render.assigned =>
            landsea_mask(infile) \subseteq render.masked
        /\ Image # {} => render.mask_oceans

\* the entities of the coastline shapefile that have points, by position;
\* the first of them is the ice sheet outline
MultiPoint == {i \in 1..Len(render.coast) : render.coast[i].parts > 0}
IceSheet == {i \in MultiPoint : \A k \in MultiPoint : i <= k}

\* C13 as stated: the grounded ice is drawn after the basin overlay, at
\* most one overlay is drawn, an overlay is drawn for Rignot, IMBIE-2,
\* IMBIE-2_subbasin and Amundsen, and the ice sheet outline (the first
\* multi-point entity of the coastline shapefile) is drawn exactly when
\* no overlay is
C13_IceSheetOutline ==
    (Called /\ Drawn("grounded_ice") # {}) =>
        /\ Cardinality(Drawn("basins")) <= 1
        /\ Cardinality(Drawn("grounded_ice")) = 1
        /\ \A i \in Drawn("basins") : \A j \in Drawn("grounded_ice") : i < j
        /\ Drawn("basins") # {}
            <=> args.basin_type \in {"Rignot", "IMBIE-2",
                                     "IMBIE-2_subbasin", "Amundsen"}
        /\ \A j \in Drawn("grounded_ice") : \A i \in IceSheet :
            i \in Range(render.layers[j].vals) <=> Drawn("basins") = {}

\* the step that sets the levels has completed
LevelsSet == Called /\ render.norm # ""
\* the failure of the run was reported by the handler of main
Reported ==
    \E i \in 1..Len(log) : log[i] = <<"critical", "process id failed">>
\* consecutive levels are a step apart
Stepped(levels, step) ==
    \A i \in 1..(Len(levels) - 1) : levels[i + 1] = fadd(levels[i], step)
\* the run failed before a figure was created, and the handler of main
\* reports the failure
FailedBeforeFigure ==
    /\ render.norm = ""
    /\ ~render.fig /\ render.layers = <<>> /\ out = out0
    /\ pc = "exit" => (exit = "returned" /\ Reported)
\* with neither a plot range nor a boundary the run fails before a figure
\* is created, and the handler of main reports the failure
NoLevelsFails ==
    (Called /\ args.boundary = None /\ args.plot_range = None
            /\ pc # "levels") =>
        /\ exc = "TypeError"
        /\ FailedBeforeFigure

Tenths(token) == IF token.k = 0 THEN 10 * token.n ELSE token.n
\* the numbers v, v + step, ... short of stop
RECURSIVE Steps(_, _, _)
Steps(v, stop, step) ==
    IF (step > 0 /\ v < stop) \/ (step < 0 /\ v > stop)
    THEN <<v>> \o Steps(v + step, stop, step)
    ELSE <<>>
\* the double x is less than a hundredth away from t tenths
Near(x, t) ==
    /\ fless(float(Dec(10 * t - 1, 2)), x)
    /\ fless(x, float(Dec(10 * t + 1, 2)))
\* the levels of a boundary list are that list; a list of one value fails
\* with ValueError before a figure is created
BoundaryLevels ==
    (Called /\ args.boundary # None /\ pc # "levels") =>
        /\ render.levels = args.boundary
        /\ render.ticks \in {<<>>, render.levels}
        /\ IF Len(args.boundary) < 2
           THEN exc = "ValueError" /\ FailedBeforeFigure
           ELSE render.norm = "BoundaryNorm"
\* the levels of the plot range MIN MAX STEP: a step of zero, nan and a
\* step of 1e-20 over four units and more fail before a figure is
\* created; numbers of at most one decimal give the levels MIN,
\* MIN+STEP, ... short of MAX+STEP up to rounding, and one more when
\* rounding puts the last one short of MAX+STEP; whole numbers give
\* exactly the levels short of MAX+STEP
RangeLevels ==
    (Called /\ args.boundary = None /\ args.plot_range # None
            /\ pc # "levels") =>
        LET MIN == cmd.plot_range.vals[1]
            MAX == cmd.plot_range.vals[2]
            STEP == cmd.plot_range.vals[3]
            exact == Steps(Tenths(MIN), Tenths(MAX) + Tenths(STEP),
                           Tenths(STEP))
        IN  IF ~STEP.nan /\ STEP.n = 0
            THEN /\ exc = "ZeroDivisionError"
                 /\ render.levels = <<>> /\ FailedBeforeFigure
            ELSE IF MIN.nan \/ MAX.nan \/ STEP.nan
            THEN /\ exc = "ValueError"
                 /\ render.levels = <<>> /\ FailedBeforeFigure
            ELSE IF STEP.k = 20
            THEN (MIN.k = 0 /\ MAX.k = 0 /\ MAX.n - MIN.n >= 4) =>
                    /\ exc = "ValueError"
                    /\ render.levels = <<>> /\ FailedBeforeFigure
            ELSE (MIN.k < 20 /\ MAX.k < 20) =>
                /\ render.norm = "Normalize"
                /\ render.ticks \in {<<>>, render.levels}
                /\ Len(render.levels) \in {Len(exact), Len(exact) + 1}
                /\ render.levels # <<>> =>
                    render.levels[1] = args.plot_range[1]
                /\ \A i \in 1..Len(render.levels) :
                    Near(render.levels[i],
                         Tenths(MIN) + (i - 1) * Tenths(STEP))
                /\ (MIN.k = 0 /\ MAX.k = 0 /\ STEP.k = 0) =>
                    /\ render.levels =
                        Wholes(Steps(MIN.n, MAX.n + STEP.n, STEP.n))
                    /\ (STEP.n > 0 /\ MAX.n >= MIN.n
                            /\ (MAX.n - MIN.n) % STEP.n = 0) =>
                        render.levels[Len(render.levels)] = Whole(MAX.n)
                    /\ (STEP.n > 0 /\ MAX.n >= MIN.n
                            /\ (MAX.n - MIN.n) % STEP.n # 0) =>
                        fless(Whole(MAX.n),
                              render.levels[Len(render.levels)])

SameFraction(a, b) ==
    /\ a[1] * b[2] = b[1] * a[2]
    /\ (a[2] = 0) <=> (b[2] = 0)
\* the mean of the dataset weighted by the cosine of the latitude, over
\* the cells that are not masked
WeightedMean ==
    LET cells == (1..Len(infile)) \ render.masked
    IN  <<Sum([i \in cells |-> cos2(infile[i].lat) * infile[i].z], cells),
          Sum([i \in cells |-> cos2(infile[i].lat)], cells)>>
\* the mean contour is drawn exactly when both options are set, and at
\* the weighted mean; the regular contours hold no zero and zero is drawn
\* once, in red
ContoursDrawn ==
    /\ Contour("blue") # {} <=> (args.plot_contours /\ args.mean_contour)
    /\ Cardinality(Contour("blue")) <= 1
    /\ \A i \in Contour("blue") :
        SameFraction(render.layers[i].vals, WeightedMean)
    /\ Cardinality(Contour("0.2")) = IF args.plot_contours THEN 1 ELSE 0
    /\ Cardinality(Contour("red")) = IF args.plot_contours THEN 1 ELSE 0
    /\ \A i \in Contour("red") : render.layers[i].vals = <<Whole(0)>>
    /\ \A i \in Contour("0.2") :
        LET clevs == render.layers[i].vals
            MIN == cmd.contour_range.vals[1].n
            MAX == cmd.contour_range.vals[2].n
            STEP == cmd.contour_range.vals[3].n
        IN  /\ Whole(0) \notin Range(clevs)
            /\ Cardinality(Range(clevs)) = Len(clevs)
            /\ Range(clevs) =
                {Whole(v) : v \in {u \in MIN..(MAX + STEP - 1) :
                                    (u - MIN) % STEP = 0 /\ u # 0}}
\* the whole numbers among the levels of the model
WholeLevels == -10 .. 10
\* the level v is drawn by the contour layer i
DrawsLevel(i, v) ==
    IF render.layers[i].arg = "blue"
    THEN SameFraction(render.layers[i].vals, <<v, 1>>)
    ELSE Whole(v) \in Range(render.layers[i].vals)

\* C15 as stated: no level is drawn by two contours
C15_NoLevelTwice ==
    ContoursDone =>
        /\ ContoursDrawn
        /\ \A i, j \in Drawn("contour") : \A v \in WholeLevels :
            (DrawsLevel(i, v) /\ DrawsLevel(j, v)) => i = j

\* C15: once the contours are drawn, the contour of the area-weighted mean
\* of the unmasked cells is drawn if and only if both options are set;
\* zero is removed from the regular levels and drawn once as its own
\* contour, so the regular and the zero contours share no level
C15_Contours ==
    ContoursDone =>
        /\ ContoursDrawn
        /\ \A i, j \in Contour("0.2") \cup Contour("red") :
            \A v \in WholeLevels :
                (DrawsLevel(i, v) /\ DrawsLevel(j, v)) => i = j

\* both options over a dataset of zeros: the blue contour is drawn at the
\* level of the red one
C15_Witness ==
    /\ ContoursDone
    /\ args.plot_contours /\ args.mean_contour
    /\ \E i \in Contour("blue") : \E j \in Contour("red") :
        DrawsLevel(i, 0) /\ DrawsLevel(j, 0)
    /\ \E i \in Contour("0.2") :
        render.layers[i].vals = Wholes(<<-2, -1, 1, 2>>)

\* the spacings of longitude and latitude on the command line: no token
\* for the default of half a degree
SpacingTokens ==
    IF ~cmd.spacing.given THEN <<>>
    ELSE IF Len(cmd.spacing.vals) = 1
    THEN <<cmd.spacing.vals[1], cmd.spacing.vals[1]>>
    ELSE <<cmd.spacing.vals[1], cmd.spacing.vals[2]>>
\* what a spacing raises in the grid dimensions: nothing for a number of
\* at most one decimal other than zero
SpacingError(token) ==
    IF token.nan THEN "ValueError"
    ELSE IF token.n = 0 THEN "ZeroDivisionError"
    ELSE IF token.k = 20 THEN "OverflowError"
    ELSE ""
\* what the spacings of the command line raise: the error of the first
\* of them that raises one
SpacingRaises ==
    IF SpacingTokens = <<>> THEN ""
    ELSE IF SpacingError(SpacingTokens[1]) # "" THEN SpacingError(SpacingTokens[1])
    ELSE SpacingError(SpacingTokens[2])
\* the run failed in the grid dimensions, before the input file was read
\* and before a figure was created
SpacingFailed ==
    /\ LevelsSet
    /\ exc \in {"ZeroDivisionError", "ValueError", "OverflowError"}
    /\ render.reader = "" /\ ~render.fig
\* the quotient of num by den, truncated toward zero
Quotient(num, den) ==
    LET q == (IF num < 0 THEN -num ELSE num)
                \div (IF den < 0 THEN -den ELSE den)
    IN  IF (num < 0) = (den < 0) THEN q ELSE -q
\* the points of degrees at the spacing of the command line, by default
\* half a degree, on an interval
GridPoints(degrees, spacing, interval) ==
    LET tenths == IF SpacingTokens = <<>> THEN 5 ELSE Tenths(SpacingTokens[spacing])
    IN  Quotient(10 * degrees + (IF interval = 1 THEN tenths ELSE 0),
                 tenths)
\* at the interpolation step the order, the reader and the dimensions of
\* the grid are those of the options
ValuesAtInterpolation ==
    Image # {} =>
        /\ {"order", "dinput", "nlon", "nlat"} \subseteq render.assigned
        /\ render.order = CASE args.interpolation = "nearest" -> 0
                            [] args.interpolation = "bilinear" -> 1
                            [] args.interpolation = "cubic" -> 3
        /\ \A i \in Image :
            render.layers[i].vals = <<render.order>>
        /\ render.reader = CASE args.format = "ascii" -> "from_ascii"
                             [] args.format = "netCDF4" -> "from_netCDF4"
                             [] args.format = "HDF5" -> "from_HDF5"
        /\ SpacingRaises = ""
        /\ render.nlon = GridPoints(360, 1, args.interval)
        /\ render.nlat = GridPoints(180, 2, args.interval)

\* C16 as stated: no accepted combination of format, interval,
\* interpolation and spacing fails before the interpolation
C16_AlwaysDefined ==
    Called =>
        /\ exc # "UnboundLocalError"
        /\ ~SpacingFailed
        /\ ValuesAtInterpolation

\* C16: every accepted combination of format, interval and interpolation
\* reaches the interpolation with every value assigned, the order, the
\* reader and the dimensions, truncated toward zero, being those of the
\* options, for every spacing that is a number other than zero; no path
\* uses an unassigned variable; the accepted spacings 0, nan and 1e-20
\* raise ZeroDivisionError, ValueError and OverflowError before the file
\* is read, and nothing else fails there
C16_Defined ==
    Called =>
        /\ args.format \in {"ascii", "netCDF4", "HDF5"}
        /\ args.interval \in {1, 2}
        /\ args.interpolation \in {"nearest", "bilinear", "cubic"}
        /\ exc # "UnboundLocalError"
        /\ SpacingFailed => exc = SpacingRaises
        /\ (LevelsSet /\ pc # "dims" /\ SpacingRaises # "") =>
            SpacingFailed
        /\ ValuesAtInterpolation

\* an ascii grid of 3.5 degrees on interval 1, interpolated with cubic
\* splines: 360/3.5 + 1 is truncated to 103
C16_Witness ==
    /\ Called /\ Image # {}
    /\ args.format = "ascii" /\ args.interval = 1
    /\ args.interpolation = "cubic"
    /\ cmd.spacing.vals = <<Dec(35, 1)>>
    /\ render.nlon = 103 /\ render.nlat = 52 /\ render.order = 3

----------------------------------------------------------------------------
(* What the index builder leaves alone *)

\* the directories whose index.txt the runs so far have opened or chmod-ed
Changed == Done("open") \cup Done("chmod")

\* C21: the index builder changes nothing but the index.txt files of the
\* selected product directories: no directory is created, no data file is
\* created, renamed, deleted or has its mode changed, and the index.txt
\* of a directory that was not selected stays as it was
C21_Frame ==
    prog = "index" =>
        /\ \A d \in Dirs :
            /\ fs[d].exists = fs0[d].exists
            /\ fs[d].files = fs0[d].files
            /\ fs[d].modes = fs0[d].modes
            /\ d \notin Changed => fs[d].index = fs0[d].index
        /\ calls > 0 => Changed \subseteq SelectedDirs

\* a completed run over CSR that rewrote the index.txt of a selected
\* directory and its mode, beside a product directory of CSR that was not
\* selected and holds data files and an old index.txt
C21_Witness ==
    /\ IndexDone
    /\ \E d \in SelectedDirs : \E e \in Dirs \ SelectedDirs :
        /\ fs[d].index.lines # fs0[d].index.lines
        /\ fs[d].index.mode # fs0[d].index.mode
        /\ fs[d].files # {}
        /\ e[1] = d[1] /\ e[2] = d[2]
        /\ fs[e].files # {}
        /\ fs[e].index.present

====
